---- MODULE Spec2Model ----
(***************************************************************************)
(* The server-side dispatcher of the remote protocol (qemud/remote.c).     *)
(*                                                                         *)
(* One session (struct qemud_client) is modelled together with the state   *)
(* of the hypervisor library it calls (the process-wide last-error slot    *)
(* and the per-connection one).  remoteDispatchClientRequest runs to       *)
(* completion for one request, so every exit path of the dispatcher is one *)
(* action: the request in the buffer and the results of the library calls  *)
(* are the action's inputs.                                                *)
(*                                                                         *)
(* Messages formatted with printf arguments are represented by their       *)
(* format string.                                                          *)
(***************************************************************************)
EXTENDS Integers, Sequences, FiniteSets, TLC

(* ------------------------------ bounds --------------------------------- *)

\* Serial numbers a client uses are 1..MaxSerial.
MaxSerial == 2

\* The history of the requests in flight keeps this many of them.
MaxInFlight == 2

(* ----------------------------- constants ------------------------------- *)

NULL == "NULL"

REMOTE_PROGRAM == "REMOTE_PROGRAM"
REMOTE_PROTOCOL_VERSION == "REMOTE_PROTOCOL_VERSION"
REMOTE_CALL == "REMOTE_CALL"
REMOTE_REPLY == "REMOTE_REPLY"
REMOTE_OK == "REMOTE_OK"
REMOTE_ERROR == "REMOTE_ERROR"

REMOTE_AUTH_NONE == "REMOTE_AUTH_NONE"
REMOTE_AUTH_SASL == "REMOTE_AUTH_SASL"

REMOTE_PROC_OPEN == "OPEN"
REMOTE_PROC_CLOSE == "CLOSE"
REMOTE_PROC_GET_HOSTNAME == "GET_HOSTNAME"
REMOTE_PROC_GET_CAPABILITIES == "GET_CAPABILITIES"
REMOTE_PROC_AUTH_LIST == "AUTH_LIST"
REMOTE_PROC_AUTH_SASL_INIT == "AUTH_SASL_INIT"
REMOTE_PROC_AUTH_SASL_START == "AUTH_SASL_START"
REMOTE_PROC_AUTH_SASL_STEP == "AUTH_SASL_STEP"

QEMUD_MODE_RX == "RX"
QEMUD_MODE_TX_PACKET == "TX"
QEMUD_TLS_DIRECTION_READ == "READ"
QEMUD_TLS_DIRECTION_WRITE == "WRITE"

VIR_ERR_OK == "VIR_ERR_OK"
VIR_ERR_RPC == "VIR_ERR_RPC"
VIR_ERR_AUTH_FAILED == "VIR_ERR_AUTH_FAILED"
VIR_ERR_NO_MEMORY == "VIR_ERR_NO_MEMORY"
VIR_FROM_REMOTE == "VIR_FROM_REMOTE"
VIR_ERR_ERROR == "VIR_ERR_ERROR"

VIR_CONNECT_RO == "VIR_CONNECT_RO"

\* The serial of the reply to a request whose header did not decode.
BlindSerial == 1

\* sizeof client->buffer.
BUFMAX == 262144

\* The longest SASL payload of the protocol.
REMOTE_AUTH_SASL_DATA_MAX == 65536

SASL_OK == "SASL_OK"
SASL_CONTINUE == "SASL_CONTINUE"

\* The maxima of the protocol for the bounded fields of a request.
REMOTE_DOMAIN_ID_LIST_MAX == 16384
REMOTE_DOMAIN_NAME_LIST_MAX == 1024
REMOTE_VCPUINFO_MAX == 2048
REMOTE_CPUMAPS_MAX == 16384
REMOTE_CPUMAP_MAX == 256
REMOTE_DOMAIN_SCHEDULER_PARAMETERS_MAX == 16

(* ------------------------------- state --------------------------------- *)

VARIABLES
    mode,           \* client->mode
    bufferLength,   \* client->bufferLength
    bufferOffset,   \* client->bufferOffset
    buffer,         \* the message framed in client->buffer
    tls,            \* client->tls is set
    direction,      \* client->direction
    readonly,       \* client->readonly
    fd,             \* client->fd
    auth,           \* client->auth
    saslconn,       \* client->saslconn
    conn,           \* client->conn
    haveSasl,       \* the build has HAVE_SASL
    virLastErr,     \* the library's process-wide last error
    connErr,        \* the last error of the connection client->conn
    authOffered,    \* the auth type the server is configured to offer the session
    opened,         \* history: an OPEN returned 0 and no CLOSE returned 0 since
    negotiation,    \* history: how far the last requests went through INIT, START
    started,        \* history: sasl_server_start was called on client->saslconn
    pending,        \* history: the requests dispatched whose reply is not drained yet
    last            \* history: what the last call of the dispatcher did

vars == <<mode, bufferLength, bufferOffset, buffer, tls, direction, readonly, fd,
          auth, saslconn, conn, haveSasl, virLastErr, connErr, authOffered,
          opened, negotiation, started, pending, last>>

(* ------------------------------ wire sizes ----------------------------- *)

RoundUp4(n) == ((n + 3) \div 4) * 4

\* xdr_int
XdrIntLen == 4

\* xdr_remote_message_header: prog, vers, proc, direction, serial, status
XdrHeaderLen == 6 * XdrIntLen

XdrStringLen(s) == XdrIntLen + RoundUp4(Len(s))

XdrOptStringLen(s) == IF s = NULL THEN XdrIntLen ELSE XdrIntLen + XdrStringLen(s)

\* xdr_remote_error
XdrErrorLen(e) ==
    XdrIntLen + XdrIntLen + XdrOptStringLen(e.message) + XdrIntLen
    + (IF e.dom = NULL THEN XdrIntLen ELSE XdrIntLen + XdrStringLen(e.dom) + 16 + XdrIntLen)
    + XdrOptStringLen(e.str1) + XdrOptStringLen(e.str2) + XdrOptStringLen(e.str3)
    + XdrIntLen + XdrIntLen
    + (IF e.net = NULL THEN XdrIntLen ELSE XdrIntLen + XdrStringLen(e.net) + 16)

(* ------------------------- the hypervisor library ---------------------- *)

\* An empty last-error slot: virGetLastError and virConnGetLastError return NULL.
NoError ==
    [code |-> VIR_ERR_OK, domain |-> "VIR_FROM_NONE", message |-> NULL,
     level |-> "VIR_ERR_NONE", dom |-> NULL, str1 |-> NULL, str2 |-> NULL,
     str3 |-> NULL, int1 |-> 0, int2 |-> 0, net |-> NULL]

\* The errors the library records.
LibErrors ==
    {[code |-> "VIR_ERR_NO_CONNECT", domain |-> "VIR_FROM_XEN",
      message |-> "could not connect to hypervisor", level |-> VIR_ERR_ERROR,
      dom |-> NULL, str1 |-> "xen", str2 |-> NULL, str3 |-> NULL,
      int1 |-> 0, int2 |-> 0, net |-> NULL],
     [code |-> "VIR_ERR_INTERNAL_ERROR", domain |-> "VIR_FROM_QEMU",
      message |-> NULL, level |-> VIR_ERR_ERROR,
      dom |-> NULL, str1 |-> NULL, str2 |-> NULL, str3 |-> NULL,
      int1 |-> 1, int2 |-> 0, net |-> NULL]}

\* Where a failing library call records its error: nowhere, in the slot of the
\* connection it was called on, or in the process-wide slot.
ErrorEffects == {[slot |-> "none", err |-> NoError]}
                \cup [slot : {"conn", "global"}, err : LibErrors]

\* The slots after a library call on connection c that failed with effect e;
\* recorded keeps the error the call recorded.
RecordError(c, e, slots) ==
    IF e.slot = "conn" /\ c # NULL
    THEN [slots EXCEPT !.connErr = e.err, !.recorded = e.err]
    ELSE IF e.slot = "none" THEN slots
    ELSE [slots EXCEPT !.virLastErr = e.err, !.recorded = e.err]

(* ------------------------------ requests ------------------------------- *)

Programs == {REMOTE_PROGRAM, "OTHER_PROGRAM"}
Versions == {REMOTE_PROTOCOL_VERSION, "OTHER_VERSION"}
Directions == {REMOTE_CALL, REMOTE_REPLY}
Statuses == {REMOTE_OK, REMOTE_ERROR}
Serials == 1..MaxSerial

\* The procedures of remote_dispatch_proc_switch.h that are modelled.
KnownProcs == {REMOTE_PROC_OPEN, REMOTE_PROC_CLOSE, REMOTE_PROC_GET_HOSTNAME,
               REMOTE_PROC_GET_CAPABILITIES,
               REMOTE_PROC_AUTH_LIST, REMOTE_PROC_AUTH_SASL_INIT,
               REMOTE_PROC_AUTH_SASL_START, REMOTE_PROC_AUTH_SASL_STEP}

\* The procedures that resolve a domain or a network sent by the client and
\* make one call of the library on it.
ObjectProcs == {"DOMAIN_CREATE", "DOMAIN_ATTACH_DEVICE", "DOMAIN_DESTROY",
                "DOMAIN_BLOCK_STATS", "DOMAIN_INTERFACE_STATS",
                "DOMAIN_MIGRATE_PERFORM", "NETWORK_CREATE",
                "DOMAIN_SET_SCHEDULER_PARAMETERS"}

\* The procedures whose handler receives a new domain or network from a call
\* of the library and returns it to the client.
LookupProcs == {"DOMAIN_LOOKUP_BY_ID", "DOMAIN_LOOKUP_BY_NAME", "DOMAIN_LOOKUP_BY_UUID",
                "NETWORK_LOOKUP_BY_NAME", "NETWORK_LOOKUP_BY_UUID",
                "DOMAIN_CREATE_LINUX", "DOMAIN_DEFINE_XML",
                "NETWORK_CREATE_XML", "NETWORK_DEFINE_XML", "DOMAIN_MIGRATE_FINISH"}

\* The procedures with a bounded field in their arguments.
BoundedProcs == {"LIST_DOMAINS", "LIST_DEFINED_DOMAINS", "DOMAIN_GET_VCPUS",
                 "DOMAIN_PIN_VCPU", "DOMAIN_GET_SCHEDULER_PARAMETERS"}

\* A procedure number that has no case in the switch.
UnknownProc == "PROC_UNKNOWN"

\* The procedures with a case in the switch on req.proc.
SwitchProcs == KnownProcs \cup ObjectProcs \cup BoundedProcs \cup LookupProcs

Procs == SwitchProcs \cup {UnknownProc}

\* The args_filter the switch selects for a procedure.
ArgsFilter(proc) ==
    CASE proc = REMOTE_PROC_OPEN -> "remote_open_args"
      [] proc = REMOTE_PROC_AUTH_SASL_START -> "remote_auth_sasl_start_args"
      [] proc = REMOTE_PROC_AUTH_SASL_STEP -> "remote_auth_sasl_step_args"
      [] proc = "NETWORK_CREATE" -> "remote_network_create_args"
      [] proc = "DOMAIN_SET_SCHEDULER_PARAMETERS" ->
            "remote_domain_set_scheduler_parameters_args"
      [] proc \in LookupProcs -> "remote_lookup_args"
      [] proc \in ObjectProcs \ {"NETWORK_CREATE", "DOMAIN_SET_SCHEDULER_PARAMETERS"} ->
            "remote_domain_args"
      [] proc = "LIST_DOMAINS" -> "remote_list_domains_args"
      [] proc = "LIST_DEFINED_DOMAINS" -> "remote_list_defined_domains_args"
      [] proc = "DOMAIN_GET_VCPUS" -> "remote_domain_get_vcpus_args"
      [] proc = "DOMAIN_PIN_VCPU" -> "remote_domain_pin_vcpu_args"
      [] proc = "DOMAIN_GET_SCHEDULER_PARAMETERS" ->
            "remote_domain_get_scheduler_parameters_args"
      [] OTHER -> "void"

OpenArgs == [kind : {"remote_open_args"}, name : {NULL, "test:///default"},
             flags : SUBSET {VIR_CONNECT_RO, "OTHER_FLAG"}]

\* The payload of a SASL request is represented by its length.
SaslStartArgs == [kind : {"remote_auth_sasl_start_args"}, mech : {"DIGEST-MD5"},
                  nil : {0, 1}, data_len : {0, 3}]

SaslStepArgs == [kind : {"remote_auth_sasl_step_args"}, nil : {0, 1},
                 data_len : {0, 3}]

\* The arguments of the procedures of ObjectProcs: the domain or the network.
DomainArgs == [kind : {"remote_domain_args"}, dom : {"dom"}]

NetworkArgs == [kind : {"remote_network_create_args"}, net : {"net"}]

\* maxids, maxnames, maxinfo, maplen and nparams are int; cpumap_len is the
\* length of an opaque.
ListDomainsArgs ==
    [kind : {"remote_list_domains_args"},
     maxids : {-1, REMOTE_DOMAIN_ID_LIST_MAX, REMOTE_DOMAIN_ID_LIST_MAX + 1}]

ListDefinedDomainsArgs ==
    [kind : {"remote_list_defined_domains_args"},
     maxnames : {-1, REMOTE_DOMAIN_NAME_LIST_MAX, REMOTE_DOMAIN_NAME_LIST_MAX + 1}]

GetVcpusArgs ==
    [kind : {"remote_domain_get_vcpus_args"}, dom : {"dom"},
     maxinfo : {-1, 1, REMOTE_VCPUINFO_MAX, REMOTE_VCPUINFO_MAX + 1},
     maplen : {-1, 1, 16, 2097152}]

PinVcpuArgs ==
    [kind : {"remote_domain_pin_vcpu_args"}, dom : {"dom"}, vcpu : {0},
     cpumap_len : {1, REMOTE_CPUMAP_MAX + 1}]

GetSchedulerParametersArgs ==
    [kind : {"remote_domain_get_scheduler_parameters_args"}, dom : {"dom"},
     nparams : {-1, 1, REMOTE_DOMAIN_SCHEDULER_PARAMETERS_MAX + 1}]

\* One parameter, of a type of the union remote_sched_param_value or of a
\* discriminant the handler has no case for.
SetSchedulerParametersArgs ==
    [kind : {"remote_domain_set_scheduler_parameters_args"}, dom : {"dom"},
     params : {<<q>> : q \in [field : {"weight"},
                               type : {"VIR_DOMAIN_SCHED_FIELD_INT", "OTHER_TYPE"},
                               value : {7}]}]

\* The arguments of the procedures of LookupProcs (an id, a name, a UUID, an
\* XML document, the name and cookie of a migration): what the library looks
\* up or creates.
LookupArgs == [kind : {"remote_lookup_args"}, key : {"key"}]

VoidArgs == [kind |-> "void"]

\* A body the procedure's args_filter cannot decode.
MalformedArgs == [kind |-> "malformed"]

ArgsOf(proc) ==
    CASE proc = REMOTE_PROC_OPEN -> OpenArgs \cup {MalformedArgs}
      [] proc = REMOTE_PROC_AUTH_SASL_START -> SaslStartArgs \cup {MalformedArgs}
      [] proc = REMOTE_PROC_AUTH_SASL_STEP -> SaslStepArgs \cup {MalformedArgs}
      [] proc = "NETWORK_CREATE" -> NetworkArgs
      [] proc = "DOMAIN_SET_SCHEDULER_PARAMETERS" -> SetSchedulerParametersArgs
      [] proc \in LookupProcs -> LookupArgs
      [] proc \in ObjectProcs \ {"NETWORK_CREATE", "DOMAIN_SET_SCHEDULER_PARAMETERS"} ->
            DomainArgs
      [] proc = "LIST_DOMAINS" -> ListDomainsArgs
      [] proc = "LIST_DEFINED_DOMAINS" -> ListDefinedDomainsArgs
      [] proc = "DOMAIN_GET_VCPUS" -> GetVcpusArgs
      [] proc = "DOMAIN_PIN_VCPU" -> PinVcpuArgs
      [] proc = "DOMAIN_GET_SCHEDULER_PARAMETERS" -> GetSchedulerParametersArgs
      [] OTHER -> {VoidArgs}

(* ------------------------------ int arithmetic ------------------------ *)

\* The four bytes of an int, the lowest first (two's complement).
Bytes32(x) ==
    LET u == IF x >= 0 THEN x ELSE (x + 2147483647) + 1
    IN  <<u % 256, (u \div 256) % 256, (u \div 65536) % 256,
          (u \div 16777216) + (IF x >= 0 THEN 0 ELSE 128)>>

\* a * b of two ints as the machine computes it: the low 32 bits of the
\* product.  (An overflowing signed product is undefined in C; the multiply
\* instruction the compilers emit for it wraps.)
Mul32(a, b) ==
    LET A == Bytes32(a)
        B == Bytes32(b)
        c0 == A[1] * B[1]
        c1 == A[1] * B[2] + A[2] * B[1] + (c0 \div 256)
        c2 == A[1] * B[3] + A[2] * B[2] + A[3] * B[1] + (c1 \div 256)
        c3 == A[1] * B[4] + A[2] * B[3] + A[3] * B[2] + A[4] * B[1] + (c2 \div 256)
        top == c3 % 256
    IN  (IF top >= 128 THEN top - 256 ELSE top) * 16777216
        + (c2 % 256) * 65536 + (c1 % 256) * 256 + (c0 % 256)

\* The procedures of the requests sent with a wrong envelope.
RejectedProcs == {REMOTE_PROC_OPEN, UnknownProc}

Headers ==
    {h \in [prog : Programs, vers : Versions, proc : Procs,
            direction : Directions, serial : Serials, status : Statuses] :
        \/ h.proc \in RejectedProcs
        \/ /\ h.prog = REMOTE_PROGRAM
           /\ h.vers = REMOTE_PROTOCOL_VERSION
           /\ h.direction = REMOTE_CALL
           /\ h.status = REMOTE_OK}

\* A request whose bytes are too few for a header.
ShortRequest ==
    [hdrOK |-> FALSE,
     hdr |-> [prog |-> REMOTE_PROGRAM, vers |-> REMOTE_PROTOCOL_VERSION,
              proc |-> REMOTE_PROC_OPEN, direction |-> REMOTE_CALL,
              serial |-> MaxSerial, status |-> REMOTE_OK],
     args |-> VoidArgs]

Requests ==
    {ShortRequest}
    \cup UNION {[hdrOK : {TRUE}, hdr : {h}, args : ArgsOf(h.proc)] : h \in Headers}

\* xdr_remote_message_header, decoding
XdrDecodeHeader(r) == r.hdrOK

\* The types of the switch on params[i].type.
SchedulerFieldTypes ==
    {"VIR_DOMAIN_SCHED_FIELD_INT", "VIR_DOMAIN_SCHED_FIELD_UINT",
     "VIR_DOMAIN_SCHED_FIELD_LLONG", "VIR_DOMAIN_SCHED_FIELD_ULLONG",
     "VIR_DOMAIN_SCHED_FIELD_DOUBLE", "VIR_DOMAIN_SCHED_FIELD_BOOLEAN"}

\* xdr_remote_sched_param_value, decoding: the discriminant selects one of
\* the six arms; the decoder fails on any other discriminant.
xdr_remote_sched_param_value(p) == p.type \in SchedulerFieldTypes

\* (*args_filter) (&xdr, args): the decoder of a bounded opaque fails on a
\* length above the maximum of the protocol, the decoder of a scheduler
\* parameter on an unknown discriminant.
XdrDecodeArgs(filter, args) ==
    \/ filter = "void"
    \/ /\ args.kind = filter
       /\ filter = "remote_domain_pin_vcpu_args" => args.cpumap_len <= REMOTE_CPUMAP_MAX
       /\ filter = "remote_domain_set_scheduler_parameters_args" =>
             \A i \in 1..Len(args.params) : xdr_remote_sched_param_value(args.params[i])

(* --------------------------- error replies ----------------------------- *)

\* Faulty variant of remoteDispatchSendError: the synthesised header whatever req is.
remoteDispatchSendErrorBlind(req, code, msg) ==
    LET rep == [prog |-> REMOTE_PROGRAM, vers |-> REMOTE_PROTOCOL_VERSION,
                proc |-> REMOTE_PROC_OPEN, direction |-> REMOTE_REPLY,
                serial |-> BlindSerial, status |-> REMOTE_ERROR]
        error == [code |-> code, domain |-> VIR_FROM_REMOTE, message |-> msg,
                  level |-> VIR_ERR_ERROR, dom |-> NULL, str1 |-> msg,
                  str2 |-> NULL, str3 |-> NULL, int1 |-> 0, int2 |-> 0,
                  net |-> NULL]
        len == XdrIntLen + XdrHeaderLen + XdrErrorLen(error)
    IN  [sent |-> len <= BUFMAX, len |-> len, hdr |-> rep,
         body |-> [kind |-> "error", error |-> error]]

\* The reply remoteDispatchSendError frames: req is <<>> (NULL) or <<header>>.
\* sent is FALSE when the encoding does not fit the buffer and the function
\* returns without switching the session to TX.
remoteDispatchSendError(req, code, msg) ==
    LET rep == IF req # <<>>
               THEN [prog |-> req[1].prog, vers |-> req[1].vers, proc |-> req[1].proc,
                     direction |-> REMOTE_REPLY, serial |-> req[1].serial,
                     status |-> REMOTE_ERROR]
               ELSE [prog |-> REMOTE_PROGRAM, vers |-> REMOTE_PROTOCOL_VERSION,
                     proc |-> REMOTE_PROC_OPEN, direction |-> REMOTE_REPLY,
                     serial |-> BlindSerial, status |-> REMOTE_ERROR]
        error == [code |-> code, domain |-> VIR_FROM_REMOTE, message |-> msg,
                  level |-> VIR_ERR_ERROR, dom |-> NULL, str1 |-> msg,
                  str2 |-> NULL, str3 |-> NULL, int1 |-> 0, int2 |-> 0,
                  net |-> NULL]
        len == XdrIntLen + XdrHeaderLen + XdrErrorLen(error)
    IN  [sent |-> len <= BUFMAX, len |-> len, hdr |-> rep,
         body |-> [kind |-> "error", error |-> error]]

remoteDispatchFailAuth(req) ==
    remoteDispatchSendError(req, VIR_ERR_AUTH_FAILED, "authentication failed")

remoteDispatchError(req, msg) ==
    remoteDispatchSendError(req, VIR_ERR_RPC, msg)

(* --------------------------- the dispatcher ---------------------------- *)

\* Faulty variant of EnvelopeError: the version is checked before the program.
EnvelopeErrorVersionFirst(h) ==
    IF h.vers # REMOTE_PROTOCOL_VERSION THEN "version mismatch (actual %x, expected %x)"
    ELSE IF h.prog # REMOTE_PROGRAM THEN "program mismatch (actual %x, expected %x)"
    ELSE IF h.direction # REMOTE_CALL THEN "direction (%d) != REMOTE_CALL"
    ELSE IF h.status # REMOTE_OK THEN "status (%d) != REMOTE_OK"
    ELSE NULL

\* The checks of the envelope, in the order of the code: the message of the
\* first one that fails, NULL when all pass.
EnvelopeError(h) ==
    IF h.prog # REMOTE_PROGRAM THEN "program mismatch (actual %x, expected %x)"
    ELSE IF h.vers # REMOTE_PROTOCOL_VERSION THEN "version mismatch (actual %x, expected %x)"
    ELSE IF h.direction # REMOTE_CALL THEN "direction (%d) != REMOTE_CALL"
    ELSE IF h.status # REMOTE_OK THEN "status (%d) != REMOTE_OK"
    ELSE NULL

\* The procedures a client that still needs auth may call.
AuthProcs == {REMOTE_PROC_AUTH_LIST, REMOTE_PROC_AUTH_SASL_INIT,
              REMOTE_PROC_AUTH_SASL_START, REMOTE_PROC_AUTH_SASL_STEP}

\* Faulty variant of AuthGateRejects: the gate is open once a negotiation has begun.
AuthGateRejectsBeforeInit(h) ==
    auth # REMOTE_AUTH_NONE /\ saslconn = NULL /\ h.proc \notin AuthProcs

\* if (client->auth) { if (req.proc != ...) ... }
AuthGateRejects(h) == auth # REMOTE_AUTH_NONE /\ h.proc \notin AuthProcs

\* The stages of remoteDispatchClientRequest up to the call of the handler.
StageOrder == <<"decode_header", "check_envelope", "auth_gate", "resolve_proc",
                "parse_args", "handler">>

\* Faulty variant of EarlyExit: the procedure is resolved before the auth gate.
EarlyExitResolveFirst(r) ==
    IF ~XdrDecodeHeader(r)
    THEN [stage |-> 1, req |-> <<>>, msg |-> "xdr_remote_message_header"]
    ELSE IF EnvelopeError(r.hdr) # NULL
    THEN [stage |-> 2, req |-> <<r.hdr>>, msg |-> EnvelopeError(r.hdr)]
    ELSE IF r.hdr.proc \notin SwitchProcs
    THEN [stage |-> 4, req |-> <<r.hdr>>, msg |-> "unknown procedure: %d"]
    ELSE IF AuthGateRejects(r.hdr)
    THEN [stage |-> 3, req |-> <<r.hdr>>, msg |-> "authentication required"]
    ELSE IF ~XdrDecodeArgs(ArgsFilter(r.hdr.proc), r.args)
    THEN [stage |-> 5, req |-> <<r.hdr>>, msg |-> "parse args failed"]
    ELSE [stage |-> 6, req |-> <<r.hdr>>, msg |-> NULL]

\* The stage at which the dispatcher leaves for request r, with the error it
\* sends there; stage "handler" when the handler is called.
EarlyExit(r) ==
    IF ~XdrDecodeHeader(r)
    THEN [stage |-> 1, req |-> <<>>, msg |-> "xdr_remote_message_header"]
    ELSE IF EnvelopeError(r.hdr) # NULL
    THEN [stage |-> 2, req |-> <<r.hdr>>, msg |-> EnvelopeError(r.hdr)]
    ELSE IF AuthGateRejects(r.hdr)
    THEN [stage |-> 3, req |-> <<r.hdr>>, msg |-> "authentication required"]
    ELSE IF r.hdr.proc \notin SwitchProcs
    THEN [stage |-> 4, req |-> <<r.hdr>>, msg |-> "unknown procedure: %d"]
    ELSE IF ~XdrDecodeArgs(ArgsFilter(r.hdr.proc), r.args)
    THEN [stage |-> 5, req |-> <<r.hdr>>, msg |-> "parse args failed"]
    ELSE [stage |-> 6, req |-> <<r.hdr>>, msg |-> NULL]

ExitStage(r) == StageOrder[EarlyExit(r).stage]

\* The buffer and the fields of the session that a framed message sets.
Framing ==
    [mode |-> mode, bufferLength |-> bufferLength, bufferOffset |-> bufferOffset,
     direction |-> direction, buffer |-> buffer]

\* Faulty variant of Transmit: the length word counts the envelope and the
\* body but not itself.
TransmitLengthOfPayload(s, m) ==
    IF m.sent
    THEN [mode |-> QEMUD_MODE_TX_PACKET, bufferLength |-> m.len, bufferOffset |-> 0,
          direction |-> IF tls THEN QEMUD_TLS_DIRECTION_WRITE ELSE s.direction,
          buffer |-> [len |-> m.len - XdrIntLen, hdr |-> m.hdr, body |-> m.body]]
    ELSE [s EXCEPT !.buffer = [len |-> 0, hdr |-> m.hdr, body |-> [kind |-> "partial"]]]

\* Faulty variant of Transmit: the direction is set to write without a look at
\* client->tls.
TransmitAlwaysWrite(s, m) ==
    IF m.sent
    THEN [mode |-> QEMUD_MODE_TX_PACKET, bufferLength |-> m.len, bufferOffset |-> 0,
          direction |-> QEMUD_TLS_DIRECTION_WRITE,
          buffer |-> [len |-> m.len, hdr |-> m.hdr, body |-> m.body]]
    ELSE [s EXCEPT !.buffer = [len |-> 0, hdr |-> m.hdr, body |-> [kind |-> "partial"]]]

\* The end of remoteDispatchSendError and of remoteDispatchClientRequest: the
\* framed message m is handed to the transport.  An encoding that did not fit
\* leaves a partly written buffer and the session as it was.
Transmit(s, m) ==
    IF m.sent
    THEN [mode |-> QEMUD_MODE_TX_PACKET, bufferLength |-> m.len, bufferOffset |-> 0,
          direction |-> IF tls THEN QEMUD_TLS_DIRECTION_WRITE ELSE s.direction,
          buffer |-> [len |-> m.len, hdr |-> m.hdr, body |-> m.body]]
    ELSE [s EXCEPT !.buffer = [len |-> 0, hdr |-> m.hdr, body |-> [kind |-> "partial"]]]

SetFraming(s) ==
    /\ mode' = s.mode
    /\ bufferLength' = s.bufferLength
    /\ bufferOffset' = s.bufferOffset
    /\ direction' = s.direction
    /\ buffer' = s.buffer

\* The length (u_int) n of an opaque where n is an int: a negative int
\* converts to a length of 2^31 or more, which no buffer holds; every such
\* length is represented by one above BUFMAX.
OpaqueLen(n) == IF n < 0 THEN BUFMAX + 1 ELSE n

\* The encoded size of a return structure.
XdrRetLen(ret) ==
    CASE ret.kind = "void" -> 0
      [] ret.kind = "remote_get_hostname_ret" -> XdrIntLen + RoundUp4(ret.hostname_len)
      [] ret.kind = "remote_get_capabilities_ret" ->
            XdrIntLen + RoundUp4(ret.capabilities_len)
      [] ret.kind = "remote_domain_block_stats_ret" -> 5 * 8
      [] ret.kind = "remote_nonnull_domain" ->
            XdrStringLen(ret.name) + 16 + XdrIntLen
      [] ret.kind = "remote_nonnull_network" -> XdrStringLen(ret.name) + 16
      [] ret.kind = "remote_domain_interface_stats_ret" -> 8 * 8
      [] ret.kind = "remote_list_domains_ret" -> XdrIntLen + XdrIntLen * ret.ids_len
      [] ret.kind = "remote_list_defined_domains_ret" ->
            XdrIntLen + (XdrIntLen + 8) * ret.names_len
      [] ret.kind = "remote_domain_get_vcpus_ret" ->
            XdrIntLen + 20 * ret.info_len + XdrIntLen
                + RoundUp4(OpaqueLen(ret.cpumaps_len))
      [] ret.kind = "remote_domain_get_scheduler_parameters_ret" ->
            XdrIntLen + (XdrIntLen + 8 + XdrIntLen + 8) * Len(ret.params)
      [] ret.kind = "remote_auth_list_ret" -> XdrIntLen + XdrIntLen * Len(ret.types)
      [] ret.kind = "remote_auth_sasl_init_ret" -> XdrStringLen(ret.mechlist)
      [] ret.kind \in {"remote_auth_sasl_start_ret", "remote_auth_sasl_step_ret"} ->
            XdrIntLen + XdrIntLen + XdrIntLen + RoundUp4(ret.data_len)

\* verr->... copied into the remote_error, or the synthesised error when verr
\* is NULL.
ErrorFromSlot(verr) ==
    IF verr.code # VIR_ERR_OK
    THEN verr
    ELSE [code |-> VIR_ERR_RPC, domain |-> VIR_FROM_REMOTE,
          message |-> "remoteDispatchClientRequest: internal error: library function returned error but did not set virterror",
          level |-> VIR_ERR_ERROR, dom |-> NULL,
          str1 |-> "remoteDispatchClientRequest: internal error: library function returned error but did not set virterror",
          str2 |-> NULL, str3 |-> NULL, int1 |-> 0, int2 |-> 0, net |-> NULL]

\* Faulty variant of LastErrorSlot: the process-wide slot whatever the session holds.
LastErrorSlotGlobal(st) == st.virLastErr

\* verr = client->conn ? virConnGetLastError (client->conn) : virGetLastError ()
LastErrorSlot(st) == IF st.conn # NULL THEN st.connErr ELSE st.virLastErr

\* Faulty variant of ReplyHeader: the serial of the synthesised header.
ReplyHeaderFixedSerial(h, rv) ==
    [prog |-> h.prog, vers |-> h.vers, proc |-> h.proc, direction |-> REMOTE_REPLY,
     serial |-> BlindSerial, status |-> IF rv = 0 THEN REMOTE_OK ELSE REMOTE_ERROR]

\* The reply header of a handler outcome 0 or -1.
ReplyHeader(h, rv) ==
    [prog |-> h.prog, vers |-> h.vers, proc |-> h.proc, direction |-> REMOTE_REPLY,
     serial |-> h.serial, status |-> IF rv = 0 THEN REMOTE_OK ELSE REMOTE_ERROR]

\* Faulty variant of FrameReply: a reply that does not fit is abandoned, the
\* buffer left partly framed and no error reply written.
FrameReplyAbandoned(h, H) ==
    LET error == ErrorFromSlot(LastErrorSlot(H.st))
        bodyLen == IF H.rv = 0 THEN XdrRetLen(H.ret) ELSE XdrErrorLen(error)
        len == XdrIntLen + XdrHeaderLen + bodyLen
    IN  [sent |-> len <= BUFMAX, len |-> len, hdr |-> ReplyHeader(h, H.rv),
         body |-> IF H.rv = 0 THEN H.ret ELSE [kind |-> "error", error |-> error]]

\* Faulty variant of FrameReply: the encoder never reports that the buffer is full.
FrameReplyUnchecked(h, H) ==
    LET error == ErrorFromSlot(LastErrorSlot(H.st))
        bodyLen == IF H.rv = 0 THEN XdrRetLen(H.ret) ELSE XdrErrorLen(error)
    IN  [sent |-> TRUE, len |-> XdrIntLen + XdrHeaderLen + bodyLen,
         hdr |-> ReplyHeader(h, H.rv),
         body |-> IF H.rv = 0 THEN H.ret ELSE [kind |-> "error", error |-> error]]

\* Serialising the reply of a handler that returned 0 or -1: length word,
\* header, then the return structure or the error.
FrameReply(h, H) ==
    LET rep == ReplyHeader(h, H.rv)
        error == ErrorFromSlot(LastErrorSlot(H.st))
        body == IF H.rv = 0 THEN H.ret ELSE [kind |-> "error", error |-> error]
        bodyLen == IF H.rv = 0 THEN XdrRetLen(H.ret) ELSE XdrErrorLen(error)
        len == XdrIntLen + XdrHeaderLen + bodyLen
    IN  IF XdrIntLen > BUFMAX THEN remoteDispatchError(<<h>>, "dummy length")
        ELSE IF XdrIntLen + XdrHeaderLen > BUFMAX
        THEN remoteDispatchError(<<h>>, "serialise reply header")
        ELSE IF len > BUFMAX
        THEN remoteDispatchError(<<h>>, IF H.rv = 0 THEN "serialise return struct"
                                                   ELSE "serialise return error")
        ELSE [sent |-> TRUE, len |-> len, hdr |-> rep, body |-> body]

\* Faulty variant of DispatcherReply: a reply is framed after a handler returned -2 too.
DispatcherReplyAfterDispatchError(h, H) ==
    IF H.rv < -2 \/ H.rv > 0
    THEN <<remoteDispatchError(<<h>>, "internal error - dispatch function returned invalid code %d")>>
    ELSE <<FrameReply(h, H)>>

\* Faulty variant of DispatcherReply: no check of the range of the code; every
\* code but -2 goes on to the framing of the reply.
DispatcherReplyAnyCode(h, H) ==
    IF H.rv = -2 THEN <<>> ELSE <<FrameReply(h, H)>>

\* What the dispatcher writes after the handler returned: <<>> when nothing.
DispatcherReply(h, H) ==
    IF H.rv < -2 \/ H.rv > 0
    THEN <<remoteDispatchError(<<h>>, "internal error - dispatch function returned invalid code %d")>>
    ELSE IF H.rv = -2 THEN <<>>
    ELSE <<FrameReply(h, H)>>

\* The state a handler starts from and may change.
HandlerState ==
    [conn |-> conn, connErr |-> connErr, virLastErr |-> virLastErr,
     auth |-> auth, saslconn |-> saslconn, recorded |-> NoError]

\* A handler that sent the error reply m itself and returns -2.
DispatchErrorOutcome(m, calls, st) ==
    [rv |-> -2, ret |-> VoidArgs, written |-> <<m>>, libcalls |-> calls,
     saslcalls |-> <<>>, st |-> st]

\* A handler that returns rv with return structure ret.
ReturnOutcome(rv, ret, calls, st) ==
    [rv |-> rv, ret |-> ret, written |-> <<>>, libcalls |-> calls,
     saslcalls |-> <<>>, st |-> st]

\* The session holds a complete reply with status OK.
ReplyOK(s) ==
    /\ s.mode = QEMUD_MODE_TX_PACKET
    /\ s.buffer.body.kind # "partial"
    /\ s.buffer.hdr.status = REMOTE_OK

\* How far the client is through the exchange AUTH_SASL_INIT, AUTH_SASL_START
\* after request r with outcome H: "init" after an INIT answered with a
\* mechanism list that is not empty, "started" after a START that follows it
\* at once with a mechanism of the list and no payload and is answered with
\* complete = 1, "none" after anything else.
Negotiated(r, H, ok) ==
    IF r.hdr.proc = REMOTE_PROC_AUTH_SASL_INIT /\ ok /\ H.ret.mechlist # ""
    THEN "init"
    ELSE IF /\ r.hdr.proc = REMOTE_PROC_AUTH_SASL_START
            /\ negotiation = "init"
            /\ ok
            /\ r.args.nil = 1
            /\ H.saslcalls[1].err = SASL_OK
            /\ H.ret.complete = 1
    THEN "started"
    ELSE "none"

\* The requests in flight once the transport has handed request r to the
\* dispatcher, in the order of their arrival (the history keeps MaxInFlight).
Arrive(r) ==
    IF Len(pending) < MaxInFlight
    THEN Append(pending, [decoded |-> r.hdrOK, hdr |-> r.hdr])
    ELSE pending

\* The dispatcher leaves before the handler: it sends the error of the stage.
Reject(r) ==
    LET e == EarlyExit(r)
    IN  /\ SetFraming(Transmit(Framing, remoteDispatchError(e.req, e.msg)))
        /\ last' = [valid |-> TRUE, decoded |-> r.hdrOK, hdr |-> r.hdr,
                    args |-> IF StageOrder[e.stage] = "parse_args" THEN r.args
                             ELSE VoidArgs,
                    negotiation |-> negotiation,
                    stages |-> SubSeq(StageOrder, 1, e.stage),
                    called |-> FALSE, rv |-> 0, ret |-> VoidArgs,
                    libcalls |-> <<>>, saslcalls |-> <<>>,
                    handlerWrote |-> FALSE, handlerBuffer |-> buffer,
                    dispatcherWrote |-> TRUE, before |-> HandlerState,
                    started |-> started, recorded |-> NoError]
        /\ negotiation' = "none"
        /\ pending' = Arrive(r)
        /\ UNCHANGED <<tls, readonly, fd, auth, saslconn, conn, haveSasl, virLastErr,
                       connErr, authOffered, opened, started>>

\* Whether sasl_server_start was called on the context the session holds
\* after a handler with outcome H: not on a context INIT just created, nor
\* when the session holds none.
Started(H) ==
    /\ H.st.saslconn # NULL
    /\ saslconn # NULL
    /\ started \/ \E i \in 1..Len(H.saslcalls) : H.saslcalls[i].fn = "sasl_server_start"

\* The handler ran with outcome H: the dispatcher frames the reply.
Finish(r, H) ==
    LET s1 == IF H.written # <<>> THEN Transmit(Framing, H.written[1]) ELSE Framing
        d == DispatcherReply(r.hdr, H)
        s2 == IF d # <<>> THEN Transmit(s1, d[1]) ELSE s1
    IN  /\ SetFraming(s2)
        /\ conn' = H.st.conn
        /\ connErr' = H.st.connErr
        /\ virLastErr' = H.st.virLastErr
        /\ auth' = H.st.auth
        /\ saslconn' = H.st.saslconn
        /\ opened' = IF r.hdr.proc = REMOTE_PROC_OPEN /\ ReplyOK(s2) THEN TRUE
                     ELSE IF r.hdr.proc = REMOTE_PROC_CLOSE /\ ReplyOK(s2) THEN FALSE
                     ELSE opened
        /\ last' = [valid |-> TRUE, decoded |-> TRUE, hdr |-> r.hdr, args |-> r.args,
                    negotiation |-> negotiation,
                    stages |-> StageOrder,
                    called |-> TRUE, rv |-> H.rv, ret |-> H.ret, libcalls |-> H.libcalls,
                    saslcalls |-> H.saslcalls,
                    handlerWrote |-> H.written # <<>>, handlerBuffer |-> s1.buffer,
                    dispatcherWrote |-> d # <<>>, before |-> HandlerState,
                    started |-> started, recorded |-> H.st.recorded]
        /\ negotiation' = Negotiated(r, H, ReplyOK(s2))
        /\ started' = Started(H)
        /\ pending' = Arrive(r)
        /\ UNCHANGED <<tls, readonly, fd, haveSasl, authOffered>>

(* ------------------------------ handlers ------------------------------- *)

\* Faulty variant of OpenFlags: the flags of the client as they are.
OpenFlagsOfClient(args) == args.flags

\* flags = args->flags; if (client->readonly) flags |= VIR_CONNECT_RO;
OpenFlags(args) == IF readonly THEN args.flags \cup {VIR_CONNECT_RO} ELSE args.flags

\* flags & VIR_CONNECT_RO ? virConnectOpenReadOnly (name) : virConnectOpen (name)
OpenCall(args) ==
    [fn |-> IF VIR_CONNECT_RO \in OpenFlags(args) THEN "virConnectOpenReadOnly"
            ELSE "virConnectOpen",
     name |-> args.name, result |-> NULL]

\* The results of virConnectOpen / virConnectOpenReadOnly: a connection, or
\* NULL with the error the library recorded (or none).
OpenResults == [ok : {TRUE}, effect : {[slot |-> "none", err |-> NoError]}]
               \cup [ok : {FALSE}, effect : ErrorEffects]

\* remoteDispatchOpen once the session is known to hold no connection.
OpenConnection(args, lib) ==
    LET call == OpenCall(args)
        newconn == IF ~lib.ok THEN NULL
                   ELSE IF call.fn = "virConnectOpenReadOnly" THEN "conn_ro"
                   ELSE "conn_rw"
        st == IF lib.ok THEN [HandlerState EXCEPT !.conn = newconn, !.connErr = NoError]
              ELSE RecordError(NULL, lib.effect, HandlerState)
    IN  ReturnOutcome(IF newconn # NULL THEN 0 ELSE -1, VoidArgs,
                      <<[call EXCEPT !.result = newconn]>>, st)

\* Faulty variant of remoteDispatchOpen: no check for a connection already open.
remoteDispatchOpenUnchecked(h, args, lib) == OpenConnection(args, lib)

remoteDispatchOpen(h, args, lib) ==
    IF conn # NULL
    THEN DispatchErrorOutcome(remoteDispatchError(<<h>>, "connection already open"),
                              <<>>, HandlerState)
    ELSE OpenConnection(args, lib)

\* Faulty variant of ConnNotOpen: return -2 with no reply written.
ConnNotOpenSilent(h) ==
    [rv |-> -2, ret |-> VoidArgs, written |-> <<>>, libcalls |-> <<>>,
     saslcalls |-> <<>>, st |-> HandlerState]

\* CHECK_CONN
ConnNotOpen(h) ==
    DispatchErrorOutcome(remoteDispatchError(<<h>>, "connection not open"),
                         <<>>, HandlerState)

\* The results of virConnectClose: its return value and the error it recorded.
CloseResults == [rv : {0, 1}, effect : {[slot |-> "none", err |-> NoError]}]
                \cup [rv : {-1}, effect : ErrorEffects]

\* Faulty variant of CloseClears: the slot is cleared unless the library returned -1.
CloseClearsUnlessError(rv) == rv # -1

\* Faulty variant of CloseClears: the slot is cleared whatever the library returned.
CloseClearsAlways(rv) == TRUE

\* if (rv == 0) client->conn = NULL;
CloseClears(rv) == rv = 0

\* Faulty variant of remoteDispatchClose: no CHECK_CONN.
remoteDispatchCloseUnchecked(h, lib) ==
    LET rv == lib.rv
        st == IF CloseClears(rv)
              THEN [HandlerState EXCEPT !.conn = NULL, !.connErr = NoError]
              ELSE RecordError(conn, lib.effect, HandlerState)
    IN  ReturnOutcome(rv, VoidArgs,
                      <<[fn |-> "virConnectClose", conn |-> conn, result |-> rv]>>, st)

remoteDispatchClose(h, lib) ==
    IF conn = NULL THEN ConnNotOpen(h)
    ELSE LET rv == lib.rv
             st == IF CloseClears(rv)
                   THEN [HandlerState EXCEPT !.conn = NULL, !.connErr = NoError]
                   ELSE RecordError(conn, lib.effect, HandlerState)
         IN  ReturnOutcome(rv, VoidArgs,
                           <<[fn |-> "virConnectClose", conn |-> conn, result |-> rv]>>, st)

\* The results of virConnectGetHostname: a string of some length, or NULL.
HostnameResults == [ok : {TRUE}, len : {9}, effect : {[slot |-> "none", err |-> NoError]}]
                   \cup [ok : {FALSE}, len : {0}, effect : ErrorEffects]

\* Faulty variant of remoteDispatchGetHostname: no CHECK_CONN.
remoteDispatchGetHostnameUnchecked(h, lib) ==
    LET call == <<[fn |-> "virConnectGetHostname", conn |-> conn, result |-> lib.ok]>>
    IN  IF ~lib.ok
        THEN ReturnOutcome(-1, VoidArgs, call, RecordError(conn, lib.effect, HandlerState))
        ELSE ReturnOutcome(0, [kind |-> "remote_get_hostname_ret",
                               hostname_len |-> lib.len], call, HandlerState)

remoteDispatchGetHostname(h, lib) ==
    IF conn = NULL THEN ConnNotOpen(h)
    ELSE LET call == <<[fn |-> "virConnectGetHostname", conn |-> conn, result |-> lib.ok]>>
         IN  IF ~lib.ok
             THEN ReturnOutcome(-1, VoidArgs, call, RecordError(conn, lib.effect, HandlerState))
             ELSE ReturnOutcome(0, [kind |-> "remote_get_hostname_ret",
                                    hostname_len |-> lib.len], call, HandlerState)

\* The results of virConnectGetCapabilities: an XML document of some length
\* (one that fits a reply, one that does not), or NULL.
CapabilitiesResults ==
    [ok : {TRUE}, len : {600, BUFMAX}, effect : {[slot |-> "none", err |-> NoError]}]
    \cup [ok : {FALSE}, len : {0}, effect : ErrorEffects]

remoteDispatchGetCapabilities(h, lib) ==
    IF conn = NULL THEN ConnNotOpen(h)
    ELSE LET call == <<[fn |-> "virConnectGetCapabilities", conn |-> conn,
                        result |-> lib.ok]>>
         IN  IF ~lib.ok
             THEN ReturnOutcome(-1, VoidArgs, call, RecordError(conn, lib.effect, HandlerState))
             ELSE ReturnOutcome(0, [kind |-> "remote_get_capabilities_ret",
                                    capabilities_len |-> lib.len], call, HandlerState)

\* Faulty variant of remoteDispatchAuthList: the type the server is configured with.
remoteDispatchAuthListOffered(h, allocOK) ==
    IF ~allocOK
    THEN DispatchErrorOutcome(remoteDispatchSendError(<<h>>, VIR_ERR_NO_MEMORY, "auth types"),
                              <<>>, HandlerState)
    ELSE ReturnOutcome(0, [kind |-> "remote_auth_list_ret", types |-> <<authOffered>>],
                       <<>>, HandlerState)

\* calloc may fail.
remoteDispatchAuthList(h, allocOK) ==
    IF ~allocOK
    THEN DispatchErrorOutcome(remoteDispatchSendError(<<h>>, VIR_ERR_NO_MEMORY, "auth types"),
                              <<>>, HandlerState)
    ELSE ReturnOutcome(0, [kind |-> "remote_auth_list_ret", types |-> <<auth>>],
                       <<>>, HandlerState)

\* The handlers of a build without SASL.
SaslUnsupported(h) ==
    [rv |-> -1, ret |-> VoidArgs, written |-> <<remoteDispatchFailAuth(<<h>>)>>,
     libcalls |-> <<>>, saslcalls |-> <<>>, st |-> HandlerState]

\* A handler that sent the error reply m and returns -2 after the calls of
\* the SASL library in calls, leaving the context ctx.
SaslFailure(m, calls, ctx) ==
    [DispatchErrorOutcome(m, <<>>, [HandlerState EXCEPT !.saslconn = ctx])
        EXCEPT !.saslcalls = calls]

\* The first step of remoteDispatchAuthSaslInit that fails, or "none".
SaslInitFailures == {"none", "getsockname", "local_getnameinfo", "local_malloc",
                     "getpeername", "remote_getnameinfo", "remote_malloc",
                     "sasl_server_new", "sasl_listmech", "strdup"}

\* The mechanisms sasl_listmech returns.
MechList == "DIGEST-MD5,GSSAPI"

remoteDispatchAuthSaslInit(h, fail) ==
    IF ~haveSasl THEN SaslUnsupported(h)
    ELSE IF auth # REMOTE_AUTH_SASL \/ saslconn # NULL
    THEN SaslFailure(remoteDispatchFailAuth(<<h>>), <<>>, saslconn)
    ELSE IF fail = "getsockname"
    THEN SaslFailure(remoteDispatchError(<<h>>, "failed to get sock address %d (%s)"),
                     <<>>, saslconn)
    ELSE IF fail = "local_getnameinfo"
    THEN SaslFailure(remoteDispatchError(<<h>>, "Cannot resolve address %d: %s"),
                     <<>>, saslconn)
    ELSE IF fail = "local_malloc"
    THEN SaslFailure(remoteDispatchError(<<h>>, "cannot allocate address"), <<>>, saslconn)
    ELSE IF fail = "getpeername"
    THEN SaslFailure(remoteDispatchError(<<h>>, "failed to get peer address %d (%s)"),
                     <<>>, saslconn)
    ELSE IF fail = "remote_getnameinfo"
    THEN SaslFailure(remoteDispatchError(<<h>>, "Cannot resolve address %d: %s"),
                     <<>>, saslconn)
    ELSE IF fail = "remote_malloc"
    THEN SaslFailure(remoteDispatchError(<<h>>, "cannot allocate address"), <<>>, saslconn)
    ELSE IF fail = "sasl_server_new"
    THEN SaslFailure(remoteDispatchFailAuth(<<h>>), <<[fn |-> "sasl_server_new"]>>, NULL)
    ELSE IF fail = "sasl_listmech"
    THEN SaslFailure(remoteDispatchFailAuth(<<h>>),
                     <<[fn |-> "sasl_server_new"], [fn |-> "sasl_listmech"],
                       [fn |-> "sasl_dispose"]>>, NULL)
    ELSE IF fail = "strdup"
    THEN SaslFailure(remoteDispatchFailAuth(<<h>>),
                     <<[fn |-> "sasl_server_new"], [fn |-> "sasl_listmech"],
                       [fn |-> "sasl_dispose"]>>, NULL)
    ELSE [ReturnOutcome(0, [kind |-> "remote_auth_sasl_init_ret", mechlist |-> MechList],
                        <<>>, [HandlerState EXCEPT !.saslconn = "saslconn"])
            EXCEPT !.saslcalls = <<[fn |-> "sasl_server_new"], [fn |-> "sasl_listmech"]>>]

\* The results of sasl_server_start and sasl_server_step: the result code, the
\* output (NULL, or a payload of some length) and whether malloc succeeds.
SaslResults ==
    [err : {SASL_OK, SASL_CONTINUE, "SASL_BADAUTH"},
     serverout : {NULL}, serveroutlen : {0}, allocOK : {TRUE}]
    \cup [err : {SASL_OK, SASL_CONTINUE, "SASL_BADAUTH"}, serverout : {"serverout"},
          serveroutlen : {0, 5, REMOTE_AUTH_SASL_DATA_MAX + 1}, allocOK : BOOLEAN]

\* Faulty variant of ClientIn: an empty payload is handed over as no payload.
ClientInEmptyAsNull(args) ==
    IF args.nil # 0 \/ args.data_len = 0 THEN NULL ELSE "data_val"

\* args->nil ? NULL : args->data.data_val
ClientIn(args) == IF args.nil # 0 THEN NULL ELSE "data_val"

\* Faulty variant of OutputTooLong: the length is checked on SASL_CONTINUE only.
OutputTooLongUnlessComplete(lib) ==
    lib.err = SASL_CONTINUE /\ lib.serveroutlen > REMOTE_AUTH_SASL_DATA_MAX

\* if (serveroutlen > REMOTE_AUTH_SASL_DATA_MAX)
OutputTooLong(lib) == lib.serveroutlen > REMOTE_AUTH_SASL_DATA_MAX

\* Faulty variant of SaslComplete: every result that is not an error completes.
SaslCompleteAlways(err) == TRUE

\* if (err == SASL_CONTINUE) ret->complete = 0; else complete = 1, auth = NONE
SaslComplete(err) == err # SASL_CONTINUE

\* The common body of remoteDispatchAuthSaslStart and remoteDispatchAuthSaslStep
\* from the call of the SASL library on: args is the payload of the client,
\* retKind the return structure, lib what the library does.
SaslNegotiate(h, args, retKind, lib) ==
    LET call == [fn |-> IF retKind = "remote_auth_sasl_start_ret"
                        THEN "sasl_server_start" ELSE "sasl_server_step",
                 mech |-> IF retKind = "remote_auth_sasl_start_ret"
                          THEN args.mech ELSE NULL,
                 clientin |-> ClientIn(args),
                 clientinlen |-> args.data_len,
                 err |-> lib.err, serverout |-> lib.serverout,
                 serveroutlen |-> lib.serveroutlen]
    IN
    IF lib.err # SASL_OK /\ lib.err # SASL_CONTINUE
    THEN SaslFailure(remoteDispatchFailAuth(<<h>>), <<call, [fn |-> "sasl_dispose"]>>, NULL)
    ELSE IF OutputTooLong(lib)
    THEN SaslFailure(remoteDispatchFailAuth(<<h>>), <<call, [fn |-> "sasl_dispose"]>>, NULL)
    ELSE IF lib.serverout # NULL /\ ~lib.allocOK
    THEN SaslFailure(remoteDispatchError(<<h>>, "out of memory allocating array"),
                     <<call>>, saslconn)
    ELSE [ReturnOutcome(0,
                        [kind |-> retKind,
                         nil |-> IF lib.serverout # NULL THEN 0 ELSE 1,
                         data_len |-> lib.serveroutlen,
                         complete |-> IF SaslComplete(lib.err) THEN 1 ELSE 0],
                        <<>>,
                        [HandlerState EXCEPT
                            !.auth = IF SaslComplete(lib.err) THEN REMOTE_AUTH_NONE
                                     ELSE auth])
            EXCEPT !.saslcalls = <<call>>]

\* Faulty variant of remoteDispatchAuthSaslStart: the precondition looks at
\* the context only, not at the auth requirement.
remoteDispatchAuthSaslStartContextOnly(h, args, lib) ==
    IF ~haveSasl THEN SaslUnsupported(h)
    ELSE IF saslconn = NULL
    THEN SaslFailure(remoteDispatchFailAuth(<<h>>), <<>>, saslconn)
    ELSE SaslNegotiate(h, args, "remote_auth_sasl_start_ret", lib)

remoteDispatchAuthSaslStart(h, args, lib) ==
    IF ~haveSasl THEN SaslUnsupported(h)
    ELSE IF auth # REMOTE_AUTH_SASL \/ saslconn = NULL
    THEN SaslFailure(remoteDispatchFailAuth(<<h>>), <<>>, saslconn)
    ELSE SaslNegotiate(h, args, "remote_auth_sasl_start_ret", lib)

remoteDispatchAuthSaslStep(h, args, lib) ==
    IF ~haveSasl THEN SaslUnsupported(h)
    ELSE IF auth # REMOTE_AUTH_SASL \/ saslconn = NULL
    THEN SaslFailure(remoteDispatchFailAuth(<<h>>), <<>>, saslconn)
    ELSE SaslNegotiate(h, args, "remote_auth_sasl_step_ret", lib)

(* --------------------- handlers of domains and networks ---------------- *)

\* What the library does in a handler that resolves an object and makes one
\* call: whether the object resolves, whether the call succeeds, and the error
\* a failing call records.
CallResults ==
    [found : BOOLEAN, ok : {TRUE}, effect : {[slot |-> "none", err |-> NoError]}]
    \cup [found : {TRUE}, ok : {FALSE}, effect : ErrorEffects]

\* dom = virGetDomain (conn, domain.name, domain.uuid)
get_nonnull_domain(c, domain, found) ==
    [fn |-> "virGetDomain", conn |-> c, name |-> domain,
     result |-> IF found THEN "virDomainPtr" ELSE NULL]

\* virGetNetwork (conn, network.name, network.uuid)
get_nonnull_network(c, network, found) ==
    [fn |-> "virGetNetwork", conn |-> c, name |-> network,
     result |-> IF found THEN "virNetworkPtr" ELSE NULL]

\* Faulty variant of ObjectNotFound: the buffers allocated before are not freed.
ObjectNotFoundLeaks(h, get, allocs) ==
    DispatchErrorOutcome(
        remoteDispatchError(<<h>>, IF get.fn = "virGetNetwork" THEN "network not found"
                                   ELSE "domain not found"),
        allocs \o <<get>>, HandlerState)

\* if (dom == NULL) { free (params); remoteDispatchError (client, req,
\* "domain not found"); return -2; } after the allocations allocs.
ObjectNotFound(h, get, allocs) ==
    DispatchErrorOutcome(
        remoteDispatchError(<<h>>, IF get.fn = "virGetNetwork" THEN "network not found"
                                   ELSE "domain not found"),
        allocs \o <<get>>
        \o [i \in 1..Len(allocs) |-> [fn |-> "free", ptr |-> allocs[i].result]],
        HandlerState)

\* The shape the handlers of ObjectProcs share: CHECK_CONN, the object is
\* resolved, fn is called on it, and the object is released with virDomainFree
\* or virNetworkFree on the paths where the handler has that call:
\* freeOnError before return -1, freeOnSuccess before return 0.
ObjectCall(h, args, lib, fn, freeOnError, freeOnSuccess, ret) ==
    IF conn = NULL THEN ConnNotOpen(h)
    ELSE LET network == args.kind = "remote_network_create_args"
             get == IF network THEN get_nonnull_network(conn, args.net, lib.found)
                    ELSE get_nonnull_domain(conn, args.dom, lib.found)
             call == [fn |-> fn, obj |-> get.result,
                      result |-> IF lib.ok THEN 0 ELSE -1]
             free == [fn |-> IF network THEN "virNetworkFree" ELSE "virDomainFree",
                      obj |-> get.result]
         IN  IF get.result = NULL
             THEN ObjectNotFound(h, get, <<>>)
             ELSE IF ~lib.ok
             THEN ReturnOutcome(-1, VoidArgs,
                                <<get, call>> \o (IF freeOnError THEN <<free>> ELSE <<>>),
                                RecordError(conn, lib.effect, HandlerState))
             ELSE ReturnOutcome(0, ret,
                                <<get, call>> \o (IF freeOnSuccess THEN <<free>> ELSE <<>>),
                                HandlerState)

remoteDispatchDomainCreate(h, args, lib) ==
    ObjectCall(h, args, lib, "virDomainCreate", TRUE, TRUE, VoidArgs)

remoteDispatchDomainAttachDevice(h, args, lib) ==
    ObjectCall(h, args, lib, "virDomainAttachDevice", TRUE, TRUE, VoidArgs)

\* No virDomainFree on either path: "destroy does it for us".
remoteDispatchDomainDestroy(h, args, lib) ==
    ObjectCall(h, args, lib, "virDomainDestroy", FALSE, FALSE, VoidArgs)

remoteDispatchDomainBlockStats(h, args, lib) ==
    ObjectCall(h, args, lib, "virDomainBlockStats", FALSE, FALSE,
               [kind |-> "remote_domain_block_stats_ret"])

remoteDispatchDomainInterfaceStats(h, args, lib) ==
    ObjectCall(h, args, lib, "virDomainInterfaceStats", FALSE, FALSE,
               [kind |-> "remote_domain_interface_stats_ret"])

remoteDispatchDomainMigratePerform(h, args, lib) ==
    ObjectCall(h, args, lib, "__virDomainMigratePerform", FALSE, FALSE, VoidArgs)

remoteDispatchNetworkCreate(h, args, lib) ==
    ObjectCall(h, args, lib, "virNetworkCreate", TRUE, TRUE, VoidArgs)

\* A handler that rejects a bounded field: the error reply and return -2.
BoundExceeded(h, msg, calls) ==
    DispatchErrorOutcome(remoteDispatchError(<<h>>, msg), calls, HandlerState)

remoteDispatchListDomains(h, args, lib) ==
    IF conn = NULL THEN ConnNotOpen(h)
    ELSE IF args.maxids > REMOTE_DOMAIN_ID_LIST_MAX
    THEN BoundExceeded(h, "maxids > REMOTE_DOMAIN_ID_LIST_MAX", <<>>)
    ELSE LET calls == <<[fn |-> "calloc", n |-> args.maxids],
                        [fn |-> "virConnectListDomains", conn |-> conn,
                         maxids |-> args.maxids, result |-> IF lib.ok THEN 1 ELSE -1]>>
         IN  IF ~lib.ok
             THEN ReturnOutcome(-1, VoidArgs, calls,
                                RecordError(conn, lib.effect, HandlerState))
             ELSE ReturnOutcome(0, [kind |-> "remote_list_domains_ret", ids_len |-> 1],
                                calls, HandlerState)

remoteDispatchListDefinedDomains(h, args, lib) ==
    IF conn = NULL THEN ConnNotOpen(h)
    ELSE IF args.maxnames > REMOTE_DOMAIN_NAME_LIST_MAX
    THEN BoundExceeded(h, "maxnames > REMOTE_DOMAIN_NAME_LIST_MAX", <<>>)
    ELSE LET calls == <<[fn |-> "calloc", n |-> args.maxnames],
                        [fn |-> "virConnectListDefinedDomains", conn |-> conn,
                         maxnames |-> args.maxnames,
                         result |-> IF lib.ok THEN 1 ELSE -1]>>
         IN  IF ~lib.ok
             THEN ReturnOutcome(-1, VoidArgs, calls,
                                RecordError(conn, lib.effect, HandlerState))
             ELSE ReturnOutcome(0, [kind |-> "remote_list_defined_domains_ret",
                                    names_len |-> 1], calls, HandlerState)

\* args->maxinfo * args->maplen is a product of two ints.
remoteDispatchDomainGetVcpus(h, args, lib) ==
    IF conn = NULL THEN ConnNotOpen(h)
    ELSE LET get == get_nonnull_domain(conn, args.dom, lib.found)
             free == [fn |-> "virDomainFree", obj |-> get.result]
             cpumaps_len == Mul32(args.maxinfo, args.maplen)
             calls == <<get,
                        [fn |-> "calloc", n |-> args.maxinfo],
                        [fn |-> "calloc", n |-> cpumaps_len],
                        [fn |-> "virDomainGetVcpus", obj |-> get.result,
                         maxinfo |-> args.maxinfo, maplen |-> args.maplen,
                         result |-> IF lib.ok THEN 1 ELSE -1]>>
         IN  IF get.result = NULL
             THEN ObjectNotFound(h, get, <<>>)
             ELSE IF args.maxinfo > REMOTE_VCPUINFO_MAX
             THEN BoundExceeded(h, "maxinfo > REMOTE_VCPUINFO_MAX", <<get, free>>)
             ELSE IF cpumaps_len > REMOTE_CPUMAPS_MAX
             THEN BoundExceeded(h, "maxinfo * maplen > REMOTE_CPUMAPS_MAX", <<get, free>>)
             ELSE IF ~lib.ok
             THEN ReturnOutcome(-1, VoidArgs, calls \o <<free>>,
                                RecordError(conn, lib.effect, HandlerState))
             ELSE ReturnOutcome(0, [kind |-> "remote_domain_get_vcpus_ret",
                                    info_len |-> 1, cpumaps_len |-> cpumaps_len],
                                calls \o <<[fn |-> "calloc", n |-> 1], free>>,
                                HandlerState)

remoteDispatchDomainPinVcpu(h, args, lib) ==
    IF conn = NULL THEN ConnNotOpen(h)
    ELSE LET get == get_nonnull_domain(conn, args.dom, lib.found)
             free == [fn |-> "virDomainFree", obj |-> get.result]
             calls == <<get, [fn |-> "virDomainPinVcpu", obj |-> get.result,
                              vcpu |-> args.vcpu, maplen |-> args.cpumap_len,
                              result |-> IF lib.ok THEN 0 ELSE -1], free>>
         IN  IF get.result = NULL
             THEN ObjectNotFound(h, get, <<>>)
             ELSE IF args.cpumap_len > REMOTE_CPUMAP_MAX
             THEN BoundExceeded(h, "cpumap_len > REMOTE_CPUMAP_MAX", <<get, free>>)
             ELSE IF ~lib.ok
             THEN ReturnOutcome(-1, VoidArgs, calls,
                                RecordError(conn, lib.effect, HandlerState))
             ELSE ReturnOutcome(0, VoidArgs, calls, HandlerState)

\* What happens in remoteDispatchDomainGetSchedulerParameters besides the
\* lookup and the call: the allocation that fails ("none", the array of the
\* parameters, the array of the return structure, the copy of a field name)
\* and the type of the parameter the library returns.
SchedulerResults ==
    [found : BOOLEAN, ok : {TRUE}, effect : {[slot |-> "none", err |-> NoError]},
     nomem : {"none"}, type : {"VIR_DOMAIN_SCHED_FIELD_INT", "OTHER_TYPE"}]
    \cup [found : {TRUE}, ok : {FALSE}, effect : ErrorEffects,
          nomem : {"none"}, type : {"VIR_DOMAIN_SCHED_FIELD_INT"}]
    \cup [found : {TRUE}, ok : {TRUE}, effect : {[slot |-> "none", err |-> NoError]},
          nomem : {"params", "params_val", "field"},
          type : {"VIR_DOMAIN_SCHED_FIELD_INT"}]

\* Faulty variant of SchedulerTypeUnknown: a switch without the default branch.
SchedulerTypeUnknownNever(type) == FALSE

\* The default branch of the switch on params[i].type is taken.
SchedulerTypeUnknown(type) == type \notin SchedulerFieldTypes

\* The library fills one parameter.
remoteDispatchDomainGetSchedulerParameters(h, args, lib) ==
    IF conn = NULL THEN ConnNotOpen(h)
    ELSE LET get == get_nonnull_domain(conn, args.dom, lib.found)
             malloc == [fn |-> "malloc", n |-> args.nparams,
                        result |-> IF lib.nomem = "params" THEN NULL ELSE "params"]
             call == [fn |-> "virDomainGetSchedulerParameters", obj |-> get.result,
                      nparams |-> args.nparams, type |-> lib.type,
                      result |-> IF lib.ok THEN 0 ELSE -1]
             release == <<[fn |-> "virDomainFree", obj |-> get.result],
                          [fn |-> "free", ptr |-> "params"]>>
             retalloc == [fn |-> "malloc", n |-> 1,
                          result |-> IF lib.nomem = "params_val" THEN NULL
                                     ELSE "params_val"]
             strdup == [fn |-> "strdup",
                        result |-> IF lib.nomem = "field" THEN NULL ELSE "field"]
         IN  IF args.nparams > REMOTE_DOMAIN_SCHEDULER_PARAMETERS_MAX
             THEN BoundExceeded(h, "nparams too large", <<>>)
             ELSE IF malloc.result = NULL
             THEN BoundExceeded(h, "out of memory allocating array", <<malloc>>)
             ELSE IF get.result = NULL
             THEN ObjectNotFound(h, get, <<malloc>>)
             ELSE IF ~lib.ok
             THEN ReturnOutcome(-1, VoidArgs, <<malloc, get, call>> \o release,
                                RecordError(conn, lib.effect, HandlerState))
             ELSE IF retalloc.result = NULL
             THEN BoundExceeded(h, "out of memory allocating return array",
                                <<malloc, get, call, retalloc>> \o release)
             ELSE IF strdup.result = NULL
             THEN BoundExceeded(h, "out of memory allocating return array",
                                <<malloc, get, call, retalloc, strdup>> \o release)
             ELSE IF SchedulerTypeUnknown(lib.type)
             THEN BoundExceeded(h, "unknown type",
                                <<malloc, get, call, retalloc, strdup>> \o release)
             ELSE ReturnOutcome(0, [kind |-> "remote_domain_get_scheduler_parameters_ret",
                                    params |-> <<[field |-> "field", type |-> lib.type]>>],
                                <<malloc, get, call, retalloc, strdup>> \o release,
                                HandlerState)

\* What happens in remoteDispatchDomainSetSchedulerParameters besides the
\* lookup and the call: whether malloc fails, and what the memory malloc
\* returned holds where the handler writes nothing.
SetSchedulerResults ==
    [found : BOOLEAN, ok : {TRUE}, effect : {[slot |-> "none", err |-> NoError]},
     nomem : {"none"}, garbage : {0, 99}]
    \cup [found : {TRUE}, ok : {FALSE}, effect : ErrorEffects,
          nomem : {"none"}, garbage : {0}]
    \cup [found : {TRUE}, ok : {TRUE}, effect : {[slot |-> "none", err |-> NoError]},
          nomem : {"params"}, garbage : {0}]

\* Faulty variant of SchedParamValue: the switch lacks the case of INT.
SchedParamValueMissingCase(p, garbage) ==
    IF p.type \in SchedulerFieldTypes \ {"VIR_DOMAIN_SCHED_FIELD_INT"}
    THEN p.value ELSE garbage

\* The switch on params[i].type: each case copies the arm of the request
\* into params[i].value; there is no default, so for a type without a case
\* params[i].value stays what malloc returned.
SchedParamValue(p, garbage) ==
    IF p.type \in SchedulerFieldTypes THEN p.value ELSE garbage

\* The switch on params[i].type has no default: for a type it has no case
\* for, params[i].value stays what malloc returned.
remoteDispatchDomainSetSchedulerParameters(h, args, lib) ==
    IF conn = NULL THEN ConnNotOpen(h)
    ELSE LET nparams == Len(args.params)
             malloc == [fn |-> "malloc", n |-> nparams,
                        result |-> IF lib.nomem = "params" THEN NULL ELSE "params"]
             params == [i \in 1..nparams |->
                           [field |-> args.params[i].field,
                            type |-> args.params[i].type,
                            value |-> SchedParamValue(args.params[i], lib.garbage)]]
             get == get_nonnull_domain(conn, args.dom, lib.found)
             call == [fn |-> "virDomainSetSchedulerParameters", obj |-> get.result,
                      params |-> params, nparams |-> nparams,
                      result |-> IF lib.ok THEN 0 ELSE -1]
             release == <<[fn |-> "virDomainFree", obj |-> get.result],
                          [fn |-> "free", ptr |-> "params"]>>
         IN  IF nparams > REMOTE_DOMAIN_SCHEDULER_PARAMETERS_MAX
             THEN BoundExceeded(h, "nparams too large", <<>>)
             ELSE IF malloc.result = NULL
             THEN BoundExceeded(h, "out of memory allocating array", <<malloc>>)
             ELSE IF get.result = NULL
             THEN ObjectNotFound(h, get, <<malloc>>)
             ELSE IF ~lib.ok
             THEN ReturnOutcome(-1, VoidArgs, <<malloc, get, call>> \o release,
                                RecordError(conn, lib.effect, HandlerState))
             ELSE ReturnOutcome(0, VoidArgs, <<malloc, get, call>> \o release,
                                HandlerState)

(* ------------------ handlers that return a new handle ------------------ *)

\* The call of the library in the handler of a procedure of LookupProcs,
\* whether it yields a network, and the call that releases the handle after
\* make_nonnull_domain / make_nonnull_network (NULL: the handler has none).
LookupCall(proc) ==
    CASE proc = "DOMAIN_LOOKUP_BY_ID" ->
            [fn |-> "virDomainLookupByID", network |-> FALSE, free |-> "virDomainFree"]
      [] proc = "DOMAIN_LOOKUP_BY_NAME" ->
            [fn |-> "virDomainLookupByName", network |-> FALSE, free |-> "virDomainFree"]
      [] proc = "DOMAIN_LOOKUP_BY_UUID" ->
            [fn |-> "virDomainLookupByUUID", network |-> FALSE, free |-> "virDomainFree"]
      [] proc = "NETWORK_LOOKUP_BY_NAME" ->
            [fn |-> "virNetworkLookupByName", network |-> TRUE, free |-> "virNetworkFree"]
      [] proc = "NETWORK_LOOKUP_BY_UUID" ->
            [fn |-> "virNetworkLookupByUUID", network |-> TRUE, free |-> "virNetworkFree"]
      [] proc = "DOMAIN_CREATE_LINUX" ->
            [fn |-> "virDomainCreateLinux", network |-> FALSE, free |-> "virDomainFree"]
      [] proc = "DOMAIN_DEFINE_XML" ->
            [fn |-> "virDomainDefineXML", network |-> FALSE, free |-> "virDomainFree"]
      [] proc = "NETWORK_CREATE_XML" ->
            [fn |-> "virNetworkCreateXML", network |-> TRUE, free |-> "virNetworkFree"]
      [] proc = "NETWORK_DEFINE_XML" ->
            [fn |-> "virNetworkDefineXML", network |-> TRUE, free |-> "virNetworkFree"]
      [] proc = "DOMAIN_MIGRATE_FINISH" ->
            [fn |-> "__virDomainMigrateFinish", network |-> FALSE, free |-> NULL]

\* The shape the handlers of LookupProcs share: CHECK_CONN, the call of the
\* library, return -1 when it yields NULL, else make_nonnull_* into the
\* return structure, the release where the handler has one, return 0.
remoteDispatchLookup(h, args, lib) ==
    IF conn = NULL THEN ConnNotOpen(h)
    ELSE LET c == LookupCall(h.proc)
             obj == IF ~lib.ok THEN NULL
                    ELSE IF c.network THEN "virNetworkPtr" ELSE "virDomainPtr"
             call == [fn |-> c.fn, conn |-> conn, key |-> args.key, result |-> obj]
             make == [fn |-> IF c.network THEN "make_nonnull_network"
                             ELSE "make_nonnull_domain", obj |-> obj]
             ret == [kind |-> IF c.network THEN "remote_nonnull_network"
                              ELSE "remote_nonnull_domain", name |-> "name"]
         IN  IF obj = NULL
             THEN ReturnOutcome(-1, VoidArgs, <<call>>,
                                RecordError(conn, lib.effect, HandlerState))
             ELSE ReturnOutcome(0, ret,
                                <<call, make>>
                                \o (IF c.free # NULL THEN <<[fn |-> c.free, obj |-> obj]>>
                                    ELSE <<>>),
                                HandlerState)

\* The case of the switch on req.proc for the procedures of ObjectProcs,
\* BoundedProcs and LookupProcs: the handler it calls.
DispatchFunction(h, args, lib) ==
    CASE h.proc = "DOMAIN_CREATE" -> remoteDispatchDomainCreate(h, args, lib)
      [] h.proc = "DOMAIN_ATTACH_DEVICE" -> remoteDispatchDomainAttachDevice(h, args, lib)
      [] h.proc = "DOMAIN_DESTROY" -> remoteDispatchDomainDestroy(h, args, lib)
      [] h.proc = "DOMAIN_BLOCK_STATS" -> remoteDispatchDomainBlockStats(h, args, lib)
      [] h.proc = "DOMAIN_INTERFACE_STATS" ->
            remoteDispatchDomainInterfaceStats(h, args, lib)
      [] h.proc = "DOMAIN_MIGRATE_PERFORM" ->
            remoteDispatchDomainMigratePerform(h, args, lib)
      [] h.proc = "NETWORK_CREATE" -> remoteDispatchNetworkCreate(h, args, lib)
      [] h.proc = "DOMAIN_SET_SCHEDULER_PARAMETERS" ->
            remoteDispatchDomainSetSchedulerParameters(h, args, lib)
      [] h.proc \in LookupProcs -> remoteDispatchLookup(h, args, lib)
      [] h.proc = "LIST_DOMAINS" -> remoteDispatchListDomains(h, args, lib)
      [] h.proc = "LIST_DEFINED_DOMAINS" -> remoteDispatchListDefinedDomains(h, args, lib)
      [] h.proc = "DOMAIN_GET_VCPUS" -> remoteDispatchDomainGetVcpus(h, args, lib)
      [] h.proc = "DOMAIN_PIN_VCPU" -> remoteDispatchDomainPinVcpu(h, args, lib)
      [] h.proc = "DOMAIN_GET_SCHEDULER_PARAMETERS" ->
            remoteDispatchDomainGetSchedulerParameters(h, args, lib)

\* What the library may do in the handler of a procedure.
ResultsOf(proc) ==
    IF proc = "DOMAIN_GET_SCHEDULER_PARAMETERS" THEN SchedulerResults
    ELSE IF proc = "DOMAIN_SET_SCHEDULER_PARAMETERS" THEN SetSchedulerResults
    ELSE IF proc \in LookupProcs THEN {l \in CallResults : l.found}
    ELSE CallResults

(* ------------------------------- actions ------------------------------- *)

\* The transport calls the dispatcher when a whole request is in the buffer.
Receiving == mode = QEMUD_MODE_RX

\* The requests on which the dispatcher leaves at a stage.
RequestsAt(stage) == {r \in Requests : ExitStage(r) = stage}

DispatchHeaderUndecodable ==
    Receiving /\ \E r \in RequestsAt("decode_header") : Reject(r)

DispatchEnvelopeRejected ==
    Receiving /\ \E r \in RequestsAt("check_envelope") : Reject(r)

DispatchAuthRequired ==
    Receiving /\ \E r \in RequestsAt("auth_gate") : Reject(r)

DispatchUnknownProcedure ==
    Receiving /\ \E r \in RequestsAt("resolve_proc") : Reject(r)

DispatchParseArgsFailed ==
    Receiving /\ \E r \in RequestsAt("parse_args") : Reject(r)

DispatchOpen ==
    /\ Receiving
    /\ \E r \in RequestsAt("handler"), lib \in OpenResults :
        /\ r.hdr.proc = REMOTE_PROC_OPEN
        /\ Finish(r, remoteDispatchOpen(r.hdr, r.args, lib))

DispatchClose ==
    /\ Receiving
    /\ \E r \in RequestsAt("handler"), lib \in CloseResults :
        /\ r.hdr.proc = REMOTE_PROC_CLOSE
        /\ Finish(r, remoteDispatchClose(r.hdr, lib))

DispatchGetHostname ==
    /\ Receiving
    /\ \E r \in RequestsAt("handler"), lib \in HostnameResults :
        /\ r.hdr.proc = REMOTE_PROC_GET_HOSTNAME
        /\ Finish(r, remoteDispatchGetHostname(r.hdr, lib))

DispatchGetCapabilities ==
    /\ Receiving
    /\ \E r \in RequestsAt("handler"), lib \in CapabilitiesResults :
        /\ r.hdr.proc = REMOTE_PROC_GET_CAPABILITIES
        /\ Finish(r, remoteDispatchGetCapabilities(r.hdr, lib))

DispatchAuthList ==
    /\ Receiving
    /\ \E r \in RequestsAt("handler"), allocOK \in BOOLEAN :
        /\ r.hdr.proc = REMOTE_PROC_AUTH_LIST
        /\ Finish(r, remoteDispatchAuthList(r.hdr, allocOK))

DispatchAuthSaslInit ==
    /\ Receiving
    /\ \E r \in RequestsAt("handler"), fail \in SaslInitFailures :
        /\ r.hdr.proc = REMOTE_PROC_AUTH_SASL_INIT
        /\ Finish(r, remoteDispatchAuthSaslInit(r.hdr, fail))

DispatchAuthSaslStart ==
    /\ Receiving
    /\ \E r \in RequestsAt("handler"), lib \in SaslResults :
        /\ r.hdr.proc = REMOTE_PROC_AUTH_SASL_START
        /\ Finish(r, remoteDispatchAuthSaslStart(r.hdr, r.args, lib))

DispatchAuthSaslStep ==
    /\ Receiving
    /\ \E r \in RequestsAt("handler"), lib \in SaslResults :
        /\ r.hdr.proc = REMOTE_PROC_AUTH_SASL_STEP
        /\ Finish(r, remoteDispatchAuthSaslStep(r.hdr, r.args, lib))

DispatchObject ==
    /\ Receiving
    /\ \E r \in RequestsAt("handler") :
        /\ r.hdr.proc \in ObjectProcs
        /\ \E lib \in ResultsOf(r.hdr.proc) :
              Finish(r, DispatchFunction(r.hdr, r.args, lib))

DispatchBounded ==
    /\ Receiving
    /\ \E r \in RequestsAt("handler") :
        /\ r.hdr.proc \in BoundedProcs
        /\ \E lib \in ResultsOf(r.hdr.proc) :
              Finish(r, DispatchFunction(r.hdr, r.args, lib))

DispatchLookup ==
    /\ Receiving
    /\ \E r \in RequestsAt("handler") :
        /\ r.hdr.proc \in LookupProcs
        /\ \E lib \in ResultsOf(r.hdr.proc) :
              Finish(r, DispatchFunction(r.hdr, r.args, lib))

\* The transport has written the reply out and waits for the next request.
TransportDrain ==
    /\ mode = QEMUD_MODE_TX_PACKET
    /\ mode' = QEMUD_MODE_RX
    /\ bufferLength' = 0
    /\ bufferOffset' = 0
    /\ buffer' = [len |-> 0]
    /\ direction' = IF tls THEN QEMUD_TLS_DIRECTION_READ ELSE direction
    /\ last' = [valid |-> FALSE]
    /\ pending' = IF pending = <<>> THEN pending ELSE Tail(pending)
    /\ UNCHANGED <<tls, readonly, fd, auth, saslconn, conn, haveSasl, virLastErr,
                   connErr, authOffered, opened, negotiation, started>>

\* The dispatcher runs for another session between two requests of this one,
\* and a library call of its handler fails and records its error in the
\* process-wide slot.
OtherSessionRecords ==
    /\ mode = QEMUD_MODE_RX
    /\ \E e \in LibErrors : virLastErr' = e /\ e # virLastErr
    /\ UNCHANGED <<mode, bufferLength, bufferOffset, buffer, tls, direction, readonly,
                   fd, auth, saslconn, conn, haveSasl, connErr, authOffered, opened,
                   negotiation, started, pending, last>>

Init ==
    /\ mode = QEMUD_MODE_RX
    /\ bufferLength = 0
    /\ bufferOffset = 0
    /\ buffer = [len |-> 0]
    /\ tls \in BOOLEAN
    /\ direction = QEMUD_TLS_DIRECTION_READ
    /\ readonly \in BOOLEAN
    /\ fd = "socket"
    /\ haveSasl \in BOOLEAN
    /\ auth \in (IF haveSasl THEN {REMOTE_AUTH_NONE, REMOTE_AUTH_SASL}
                 ELSE {REMOTE_AUTH_NONE})
    /\ authOffered = auth
    /\ saslconn = NULL
    /\ conn = NULL
    /\ virLastErr = NoError
    /\ connErr = NoError
    /\ opened = FALSE
    /\ negotiation = "none"
    /\ started = FALSE
    /\ pending = <<>>
    /\ last = [valid |-> FALSE]

Next ==
    \/ DispatchHeaderUndecodable
    \/ DispatchEnvelopeRejected
    \/ DispatchAuthRequired
    \/ DispatchUnknownProcedure
    \/ DispatchParseArgsFailed
    \/ DispatchOpen
    \/ DispatchClose
    \/ DispatchGetHostname
    \/ DispatchGetCapabilities
    \/ DispatchAuthList
    \/ DispatchAuthSaslInit
    \/ DispatchAuthSaslStart
    \/ DispatchAuthSaslStep
    \/ DispatchObject
    \/ DispatchBounded
    \/ DispatchLookup
    \/ TransportDrain
    \/ OtherSessionRecords

Spec == Init /\ [][Next]_vars

(* ------------------------------- properties -------------------------------- *)

\* A complete reply is in the buffer for the request the dispatcher last ran on.
Replied ==
    /\ last.valid
    /\ mode = QEMUD_MODE_TX_PACKET
    /\ buffer.body.kind # "partial"

\* The reply in the buffer is an error reply with this message.
ErrorReply(msg) ==
    /\ Replied
    /\ buffer.hdr.status = REMOTE_ERROR
    /\ buffer.body.kind = "error"
    /\ buffer.body.error.message = msg

\* The envelope of the last request passes the four checks.
EnvelopeAccepted ==
    /\ last.decoded
    /\ last.hdr.prog = REMOTE_PROGRAM
    /\ last.hdr.vers = REMOTE_PROTOCOL_VERSION
    /\ last.hdr.direction = REMOTE_CALL
    /\ last.hdr.status = REMOTE_OK

\* C1: every reply to a request whose envelope decoded, on whatever path of
\* the dispatcher it was framed, has the program, version, procedure and
\* serial of the request and direction REPLY.
ReplyEchoesRequest ==
    (Replied /\ last.decoded) =>
        /\ buffer.hdr.prog = last.hdr.prog
        /\ buffer.hdr.vers = last.hdr.vers
        /\ buffer.hdr.proc = last.hdr.proc
        /\ buffer.hdr.serial = last.hdr.serial
        /\ buffer.hdr.direction = REMOTE_REPLY

\* A handler returned -1 for a request whose procedure and serial are not
\* those of the synthesised header, and the reply echoes them.
ReplyEchoesRequestWitness ==
    /\ Replied
    /\ last.called
    /\ last.rv = -1
    /\ last.hdr.proc = REMOTE_PROC_GET_HOSTNAME
    /\ last.hdr.serial # BlindSerial
    /\ buffer.hdr.serial = last.hdr.serial

\* C2: while the session requires authentication, a request with an accepted
\* envelope for a procedure other than the four AUTH procedures is answered
\* with the error "authentication required", and neither the arguments are
\* decoded nor the handler or the hypervisor library called.
AuthGate ==
    (/\ last.valid
     /\ EnvelopeAccepted
     /\ last.before.auth # REMOTE_AUTH_NONE
     /\ last.hdr.proc \notin {REMOTE_PROC_AUTH_LIST, REMOTE_PROC_AUTH_SASL_INIT,
                              REMOTE_PROC_AUTH_SASL_START, REMOTE_PROC_AUTH_SASL_STEP})
    => /\ ErrorReply("authentication required")
       /\ \A i \in 1..Len(last.stages) : last.stages[i] \notin {"parse_args", "handler"}
       /\ ~last.called
       /\ last.libcalls = <<>>
       /\ conn = last.before.conn

\* GET_HOSTNAME was refused in the middle of a SASL negotiation.
AuthGateWitness ==
    /\ ErrorReply("authentication required")
    /\ last.before.auth = REMOTE_AUTH_SASL
    /\ last.before.saslconn # NULL
    /\ last.hdr.proc = REMOTE_PROC_GET_HOSTNAME

\* The message the order program, version, direction, status asks for.
FirstEnvelopeMismatch(h) ==
    CASE h.prog # REMOTE_PROGRAM -> "program mismatch (actual %x, expected %x)"
      [] h.prog = REMOTE_PROGRAM /\ h.vers # REMOTE_PROTOCOL_VERSION ->
            "version mismatch (actual %x, expected %x)"
      [] h.prog = REMOTE_PROGRAM /\ h.vers = REMOTE_PROTOCOL_VERSION
         /\ h.direction # REMOTE_CALL -> "direction (%d) != REMOTE_CALL"
      [] OTHER -> "status (%d) != REMOTE_OK"

\* C3: the envelope of a decoded request is checked in the order program,
\* version, direction, status; the first check that fails gives the message
\* of the error reply, which has status ERROR, code RPC and the serial of the
\* request, and no handler is called.
EnvelopeCheckOrder ==
    (last.valid /\ last.decoded /\ ~EnvelopeAccepted) =>
        /\ ErrorReply(FirstEnvelopeMismatch(last.hdr))
        /\ buffer.body.error.code = VIR_ERR_RPC
        /\ buffer.hdr.serial = last.hdr.serial
        /\ ~last.called
        /\ last.libcalls = <<>>

\* Program, version, direction and status are all wrong: "program mismatch".
EnvelopeCheckOrderWitness ==
    /\ last.valid
    /\ last.decoded
    /\ last.hdr.prog # REMOTE_PROGRAM
    /\ last.hdr.vers # REMOTE_PROTOCOL_VERSION
    /\ last.hdr.direction # REMOTE_CALL
    /\ last.hdr.status # REMOTE_OK
    /\ last.hdr.serial # BlindSerial
    /\ ErrorReply("program mismatch (actual %x, expected %x)")

\* C4: a request whose envelope does not decode is answered with the header
\* {PROGRAM, VERSION, OPEN, REPLY, serial 1, ERROR} and an error of code RPC;
\* every other error reply has the procedure and the serial of its request.
BlindErrorFallback ==
    /\ (last.valid /\ ~last.decoded) =>
            /\ Replied
            /\ buffer.hdr = [prog |-> REMOTE_PROGRAM, vers |-> REMOTE_PROTOCOL_VERSION,
                             proc |-> REMOTE_PROC_OPEN, direction |-> REMOTE_REPLY,
                             serial |-> 1, status |-> REMOTE_ERROR]
            /\ buffer.body.kind = "error"
            /\ buffer.body.error.code = VIR_ERR_RPC
    /\ (Replied /\ last.decoded /\ buffer.hdr.status = REMOTE_ERROR) =>
            /\ buffer.hdr.proc = last.hdr.proc
            /\ buffer.hdr.serial = last.hdr.serial

\* The reply to a request too short for a header.
BlindErrorFallbackWitness ==
    /\ Replied
    /\ ~last.decoded
    /\ buffer.hdr.proc = REMOTE_PROC_OPEN
    /\ buffer.hdr.serial = 1
    /\ buffer.body.error.message = "xdr_remote_message_header"

\* C5: the session holds a hypervisor connection exactly when an OPEN was
\* answered with status OK and no CLOSE has been answered with status OK
\* since.
HandleIffOpened == (conn # NULL) <=> opened

\* A CLOSE succeeded after an OPEN: the slot is empty again.
HandleIffOpenedWitness ==
    /\ Replied
    /\ last.hdr.proc = REMOTE_PROC_CLOSE
    /\ last.rv = 0
    /\ last.before.conn # NULL
    /\ conn = NULL
    /\ ~opened

\* The handler of this procedure was called for the last request.
Handled(proc) == last.valid /\ last.called /\ last.hdr.proc = proc

\* C6: an OPEN on a session that holds a connection is answered with the
\* error "connection already open", the library's open is not called and the
\* connection stays the one it was.
OpenTwiceRejected ==
    (Handled(REMOTE_PROC_OPEN) /\ last.before.conn # NULL) =>
        /\ ErrorReply("connection already open")
        /\ last.libcalls = <<>>
        /\ conn = last.before.conn

\* A second OPEN on an open session.
OpenTwiceRejectedWitness ==
    /\ Handled(REMOTE_PROC_OPEN)
    /\ last.before.conn # NULL
    /\ ErrorReply("connection already open")
    /\ conn = last.before.conn

\* C7: on a read-only session every open the library is asked for is a
\* read-only one, whatever flags the client sent; a read-write open is made
\* only on a session that is not read-only, for flags without the read-only
\* bit.
ReadOnlyProjection ==
    /\ Handled(REMOTE_PROC_OPEN) =>
          \A i \in 1..Len(last.libcalls) :
              /\ readonly => last.libcalls[i].fn = "virConnectOpenReadOnly"
              /\ last.libcalls[i].fn = "virConnectOpen" =>
                    ~readonly /\ VIR_CONNECT_RO \notin last.args.flags
    /\ readonly => conn # "conn_rw"

\* A client asked a read-only session for a read-write connection with no
\* flag set and got a read-only one.
ReadOnlyProjectionWitness ==
    /\ Handled(REMOTE_PROC_OPEN)
    /\ readonly
    /\ last.args.flags = {}
    /\ Len(last.libcalls) = 1
    /\ last.libcalls[1].fn = "virConnectOpenReadOnly"
    /\ conn = "conn_ro"
    /\ Replied
    /\ buffer.hdr.status = REMOTE_OK

\* C8: CLOSE empties the connection slot only when the library's close
\* returned success; when it did not, the slot keeps the connection and the
\* reply has status ERROR.
CloseClearsOnSuccessOnly ==
    (Handled(REMOTE_PROC_CLOSE) /\ last.libcalls # <<>>) =>
        /\ last.libcalls[1].fn = "virConnectClose"
        /\ (conn = NULL) <=> (last.libcalls[1].result = 0)
        /\ last.libcalls[1].result # 0 =>
              /\ conn = last.before.conn
              /\ Replied
              /\ buffer.hdr.status = REMOTE_ERROR

\* The library's close returned -1: the connection is kept.
CloseClearsOnSuccessOnlyWitness ==
    /\ Handled(REMOTE_PROC_CLOSE)
    /\ last.libcalls # <<>>
    /\ last.libcalls[1].result = -1
    /\ conn # NULL
    /\ conn = last.before.conn
    /\ Replied
    /\ buffer.hdr.status = REMOTE_ERROR

\* The return structure of the last handler fits the buffer after the length
\* word and the header.
ReturnFits == 4 + 24 + XdrRetLen(last.ret) <= BUFMAX

\* What C9 says of the outcomes -1 and -2 and of replies with status OK.
ErrorOutcomes ==
    /\ (last.valid /\ last.called /\ last.rv = -1) =>
          /\ Replied
          /\ buffer.hdr.status = REMOTE_ERROR
          /\ buffer.body.kind = "error"
    /\ (last.valid /\ last.called /\ last.rv = -2) =>
          /\ Replied
          /\ last.handlerWrote
          /\ ~last.dispatcherWrote
          /\ buffer = last.handlerBuffer
    /\ (Replied /\ buffer.hdr.status = REMOTE_OK) => (last.called /\ last.rv = 0)

\* C9 as stated: outcome 0 gives a reply with status OK whose body is the
\* return value, outcome -1 an error reply, outcome -2 the buffer as the
\* handler framed it, and no reply has status OK unless the handler returned 0.
OutcomeDeterminesReply ==
    /\ (last.valid /\ last.called /\ last.rv = 0) =>
          /\ Replied
          /\ buffer.hdr.status = REMOTE_OK
          /\ buffer.body = last.ret
    /\ ErrorOutcomes

\* C9 amended: outcome 0 gives a reply with status OK whose body is the
\* return value when the encoded return value fits the buffer, and the error
\* reply "serialise return struct" when it does not; outcome -1 gives an error
\* reply, outcome -2 leaves the buffer as the handler framed it, and no reply
\* has status OK unless the handler returned 0.
OutcomeDeterminesReplyIfEncodable ==
    /\ (last.valid /\ last.called /\ last.rv = 0 /\ ReturnFits) =>
          /\ Replied
          /\ buffer.hdr.status = REMOTE_OK
          /\ buffer.body = last.ret
    /\ (last.valid /\ last.called /\ last.rv = 0 /\ ~ReturnFits) =>
          ErrorReply("serialise return struct")
    /\ ErrorOutcomes

\* A handler sent "connection not open" itself and returned -2: that reply is
\* the one in the buffer.
OutcomeDeterminesReplyWitness ==
    /\ Handled(REMOTE_PROC_GET_CAPABILITIES)
    /\ last.rv = -2
    /\ last.handlerWrote
    /\ buffer = last.handlerBuffer
    /\ ErrorReply("connection not open")

\* The error a last-error slot gives: its own, or the synthesised one.
SlotGivesBody(slot) ==
    IF slot.code # VIR_ERR_OK
    THEN buffer.body.error = slot
    ELSE /\ buffer.body.error.code = VIR_ERR_RPC
         /\ buffer.body.error.domain = VIR_FROM_REMOTE
         /\ buffer.body.error.level = VIR_ERR_ERROR

\* C10: after a handler returned -1 the error of the reply is the last error
\* of the connection when the session holds one and the library's process-wide
\* last error when it holds none; an empty slot gives the generic error with
\* code RPC, domain REMOTE and level ERROR.
LibraryErrorBody ==
    (last.valid /\ last.called /\ last.rv = -1) =>
        /\ Replied
        /\ buffer.body.kind = "error"
        /\ conn # NULL => SlotGivesBody(connErr)
        /\ conn = NULL => SlotGivesBody(virLastErr)

\* The session holds a connection whose slot is empty while the process-wide
\* slot is not: the generic error is sent.
LibraryErrorBodyWitness ==
    /\ Handled(REMOTE_PROC_GET_HOSTNAME)
    /\ last.rv = -1
    /\ conn # NULL
    /\ connErr.code = VIR_ERR_OK
    /\ virLastErr.code # VIR_ERR_OK
    /\ Replied
    /\ buffer.body.error.code = VIR_ERR_RPC

\* The dispatcher left at this stage for the last request.
ExitStageOfLast(stage) ==
    /\ last.valid
    /\ ~last.called
    /\ last.stages[Len(last.stages)] = stage

\* The last request failed: it was rejected before its handler, or its handler
\* returned something other than 0.
FailedRequest == last.valid /\ ~(last.called /\ last.rv = 0)

\* The failures C11 lists are all there are of a failed request.
FailureKinds ==
    \/ ExitStageOfLast("check_envelope")
    \/ ExitStageOfLast("auth_gate")
    \/ ExitStageOfLast("resolve_proc")
    \/ ExitStageOfLast("parse_args")
    \/ ExitStageOfLast("decode_header")
    \/ last.called

\* C11: every failed request (envelope rejected, authentication required,
\* unknown procedure, arguments that do not decode, precondition failure,
\* library failure) leaves the session in TX mode with a complete reply of
\* status ERROR whose body is an error record, framed from offset 0, and with
\* the hypervisor connection it had; and once that reply is drained the
\* session is back in RX mode, where the dispatcher runs on the next request,
\* with its connection, auth state and SASL context untouched.
ErrorsLeaveSessionUsable ==
    /\ [](FailedRequest =>
            /\ FailureKinds
            /\ Replied
            /\ mode = QEMUD_MODE_TX_PACKET
            /\ bufferOffset = 0
            /\ bufferLength = buffer.len
            /\ buffer.hdr.status = REMOTE_ERROR
            /\ buffer.body.kind = "error"
            /\ buffer.body.error.code # VIR_ERR_OK
            /\ conn = last.before.conn)
    /\ [][(FailedRequest /\ ~last'.valid) =>
            /\ mode' = QEMUD_MODE_RX
            /\ conn' = conn
            /\ auth' = auth
            /\ saslconn' = saslconn]_vars

\* A request for a domain that does not resolve failed on an open session:
\* the error reply is framed and the connection is still there.
ErrorsLeaveSessionUsableWitness ==
    /\ Handled("DOMAIN_CREATE")
    /\ last.rv = -2
    /\ ErrorReply("domain not found")
    /\ conn # NULL
    /\ conn = last.before.conn

\* The calls of the last handler that are made by this function.
CallsOf(fns) == {i \in 1..Len(last.libcalls) : last.libcalls[i].fn \in fns}

\* The last handler resolved the object the client named.
HandleAcquired ==
    /\ last.valid
    /\ last.called
    /\ \E i \in CallsOf({"virGetDomain", "virGetNetwork"}) :
          last.libcalls[i].result # NULL

\* C12: a handler that resolved a domain or a network with get_nonnull_domain
\* or get_nonnull_network releases it exactly once (virDomainFree,
\* virNetworkFree) on every path on which it returns, whether with 0, -1 or
\* -2; DOMAIN_DESTROY returning 0 alone releases nothing.
HandleReleasedOnce ==
    HandleAcquired =>
        Cardinality(CallsOf({"virDomainFree", "virNetworkFree"}))
            = IF last.hdr.proc = "DOMAIN_DESTROY" /\ last.rv = 0 THEN 0 ELSE 1

\* The value the bounded field of these arguments has above its maximum.  The
\* product maxinfo * maplen is compared without being computed; a product with
\* a factor that is not positive is not above the maximum.
BoundedFieldExceeded(args) ==
    CASE args.kind = "remote_list_domains_args" ->
            args.maxids > REMOTE_DOMAIN_ID_LIST_MAX
      [] args.kind = "remote_list_defined_domains_args" ->
            args.maxnames > REMOTE_DOMAIN_NAME_LIST_MAX
      [] args.kind = "remote_domain_get_vcpus_args" ->
            \/ args.maxinfo > REMOTE_VCPUINFO_MAX
            \/ /\ args.maxinfo > 0
               /\ args.maplen > REMOTE_CPUMAPS_MAX \div args.maxinfo
      [] args.kind = "remote_domain_pin_vcpu_args" ->
            args.cpumap_len > REMOTE_CPUMAP_MAX
      [] args.kind = "remote_domain_get_scheduler_parameters_args" ->
            args.nparams > REMOTE_DOMAIN_SCHEDULER_PARAMETERS_MAX
      [] OTHER -> FALSE

\* C13: on an open session a request with a bounded field (maxnames, maxids,
\* maxinfo, maxinfo * maplen, cpumap_len, nparams) above its maximum, for an
\* object that resolves, is answered with an error reply of status ERROR and
\* code RPC; nothing is allocated and the library's list or query function is
\* not called.  (The wording of the message is left open here.)
BoundEnforced ==
    (/\ last.valid
     /\ EnvelopeAccepted
     /\ last.hdr.proc \in BoundedProcs
     /\ last.before.auth = REMOTE_AUTH_NONE
     /\ last.before.conn # NULL
     /\ BoundedFieldExceeded(last.args)
     /\ \A i \in CallsOf({"virGetDomain"}) : last.libcalls[i].result # NULL)
    => /\ Replied
       /\ buffer.hdr.status = REMOTE_ERROR
       /\ buffer.body.kind = "error"
       /\ buffer.body.error.code = VIR_ERR_RPC
       /\ CallsOf({"calloc", "malloc"}) = {}
       /\ CallsOf({"virConnectListDomains", "virConnectListDefinedDomains",
                   "virDomainGetVcpus", "virDomainPinVcpu",
                   "virDomainGetSchedulerParameters"}) = {}

\* The last request was an AUTH_SASL_START or AUTH_SASL_STEP on a session in
\* NEGOTIATING, so the SASL library was called: its call is saslcalls[1].
Negotiating ==
    /\ last.valid
    /\ last.called
    /\ last.hdr.proc \in {REMOTE_PROC_AUTH_SASL_START, REMOTE_PROC_AUTH_SASL_STEP}
    /\ haveSasl
    /\ last.before.auth = REMOTE_AUTH_SASL
    /\ last.before.saslconn # NULL

\* The reply is the FailAuth one, the context is gone and the session still
\* requires authentication.
AuthFailed ==
    /\ ErrorReply("authentication failed")
    /\ buffer.body.error.code = VIR_ERR_AUTH_FAILED
    /\ saslconn = NULL
    /\ auth = REMOTE_AUTH_SASL

\* The reply has status OK and this value of complete.
SaslReply(complete) ==
    /\ Replied
    /\ buffer.hdr.status = REMOTE_OK
    /\ buffer.body.kind \in {"remote_auth_sasl_start_ret", "remote_auth_sasl_step_ret"}
    /\ buffer.body.complete = complete

\* The session is still negotiating with the context it had.
StillNegotiating ==
    /\ auth = REMOTE_AUTH_SASL
    /\ saslconn # NULL
    /\ saslconn = last.before.saslconn

\* C14 as stated: in NEGOTIATING the result of the SASL library alone decides:
\* CONTINUE gives complete = 0 and the session stays NEGOTIATING, OK gives
\* complete = 1 and clears the auth requirement, any other result gives the
\* FailAuth reply, destroys the context and leaves the requirement.
SaslResultDecides ==
    Negotiating =>
        /\ last.saslcalls[1].err = SASL_CONTINUE => SaslReply(0) /\ StillNegotiating
        /\ last.saslcalls[1].err = SASL_OK => SaslReply(1) /\ auth = REMOTE_AUTH_NONE
        /\ last.saslcalls[1].err \notin {SASL_OK, SASL_CONTINUE} => AuthFailed

\* The allocation of the reply's payload failed: an error reply of code RPC,
\* and the session as it was.
SaslReplyOutOfMemory ==
    /\ last.saslcalls[1].serverout # NULL
    /\ ErrorReply("out of memory allocating array")
    /\ buffer.body.error.code = VIR_ERR_RPC
    /\ StillNegotiating

\* C14 amended: the result of the SASL library decides as stated when the
\* output of the library is no longer than the maximum and the payload of the
\* reply can be allocated; a longer output gives the FailAuth reply with the
\* context destroyed, a failed allocation an error reply of code RPC with the
\* session still NEGOTIATING.
SaslResultDecidesIfReplyFits ==
    Negotiating =>
        LET call == last.saslcalls[1]
        IN  /\ (call.err = SASL_CONTINUE /\ call.serveroutlen <= 65536) =>
                  \/ SaslReply(0) /\ StillNegotiating
                  \/ SaslReplyOutOfMemory
            /\ (call.err = SASL_OK /\ call.serveroutlen <= 65536) =>
                  \/ SaslReply(1) /\ auth = REMOTE_AUTH_NONE
                  \/ SaslReplyOutOfMemory
            /\ (call.err \in {SASL_OK, SASL_CONTINUE} /\ call.serveroutlen > 65536) =>
                  AuthFailed
            /\ call.err \notin {SASL_OK, SASL_CONTINUE} => AuthFailed

\* A STEP for which the library said CONTINUE: complete = 0, still NEGOTIATING.
SaslResultDecidesWitness ==
    /\ Negotiating
    /\ last.hdr.proc = REMOTE_PROC_AUTH_SASL_STEP
    /\ last.saslcalls[1].err = SASL_CONTINUE
    /\ SaslReply(0)
    /\ StillNegotiating

\* C15: AUTH_SASL_INIT returns 0 only on a session whose auth is SASL and that
\* has no context, which it then has; every other return of AUTH_SASL_INIT is
\* answered with the FailAuth reply (code AUTH_FAILED) and leaves the context
\* slot as it was.
SaslInitFailsAuth ==
    Handled(REMOTE_PROC_AUTH_SASL_INIT) =>
        /\ last.rv = 0 =>
              /\ last.before.auth = REMOTE_AUTH_SASL
              /\ last.before.saslconn = NULL
              /\ saslconn # NULL
              /\ auth = REMOTE_AUTH_SASL
        /\ last.rv # 0 =>
              /\ ErrorReply("authentication failed")
              /\ buffer.body.error.code = VIR_ERR_AUTH_FAILED
              /\ saslconn = last.before.saslconn

\* C16: a SASL context exists only while the session is NEGOTIATING, that is
\* while it still requires SASL authentication: an AUTHORIZED session holds
\* none.
ContextOnlyWhileNegotiating == saslconn # NULL => auth = REMOTE_AUTH_SASL

\* C17: when the output of the SASL library for AUTH_SASL_START or
\* AUTH_SASL_STEP is longer than the maximum, whatever the result code, the
\* reply is the FailAuth one (code AUTH_FAILED), the context is disposed of
\* and the session still requires authentication.
OversizeOutputFailsAuth ==
    (Negotiating /\ last.saslcalls[1].serveroutlen > 65536) =>
        /\ AuthFailed
        /\ last.rv = -2
        /\ Len(last.saslcalls) = 2
        /\ last.saslcalls[2].fn = "sasl_dispose"

\* The library said OK with an output one byte too long.
OversizeOutputFailsAuthWitness ==
    /\ Negotiating
    /\ last.saslcalls[1].err = SASL_OK
    /\ last.saslcalls[1].serveroutlen = 65537
    /\ AuthFailed

AuthListFrame ==
    /\ auth = last.before.auth
    /\ saslconn = last.before.saslconn
    /\ conn = last.before.conn

\* C19 as stated: AUTH_LIST, in whatever auth state, returns the list of the
\* one auth type the server is configured to offer the session and changes
\* neither the auth state nor the context nor the connection.
AuthListOffersConfigured ==
    Handled(REMOTE_PROC_AUTH_LIST) =>
        /\ Replied
        /\ buffer.hdr.status = REMOTE_OK
        /\ buffer.body.kind = "remote_auth_list_ret"
        /\ buffer.body.types = <<authOffered>>
        /\ AuthListFrame

\* C19 amended: AUTH_LIST returns the list of one auth type, the one the
\* session currently requires: the type the server is configured to offer up
\* to the end of the authentication and NONE from then on; when the list
\* cannot be allocated the reply is an error of code NO_MEMORY.  In every case
\* the auth state, the context and the connection stay as they were.
AuthListReportsRequirement ==
    Handled(REMOTE_PROC_AUTH_LIST) =>
        /\ AuthListFrame
        /\ last.rv \in {0, -2}
        /\ last.rv = 0 =>
              /\ Replied
              /\ buffer.hdr.status = REMOTE_OK
              /\ buffer.body.kind = "remote_auth_list_ret"
              /\ Len(buffer.body.types) = 1
              /\ buffer.body.types[1] = last.before.auth
              /\ buffer.body.types[1] \in {authOffered, REMOTE_AUTH_NONE}
        /\ last.rv = -2 =>
              /\ ErrorReply("auth types")
              /\ buffer.body.error.code = VIR_ERR_NO_MEMORY

\* AUTH_LIST after the authentication on a session offered SASL: NONE.
AuthListReportsRequirementWitness ==
    /\ Handled(REMOTE_PROC_AUTH_LIST)
    /\ authOffered = REMOTE_AUTH_SASL
    /\ last.before.auth = REMOTE_AUTH_NONE
    /\ Replied
    /\ buffer.hdr.status = REMOTE_OK
    /\ buffer.body.types = <<REMOTE_AUTH_NONE>>

\* The last request is a GET_HOSTNAME that follows at once an AUTH_SASL_INIT
\* answered with a mechanism list and an AUTH_SASL_START with a mechanism of
\* the list and nil = 1 that the library answered with OK, on a session that
\* required SASL.
HostnameAfterAuthentication ==
    /\ last.valid
    /\ last.hdr.proc = REMOTE_PROC_GET_HOSTNAME
    /\ EnvelopeAccepted
    /\ last.negotiation = "started"
    /\ authOffered = REMOTE_AUTH_SASL

\* C20 as stated: that GET_HOSTNAME succeeds, its reply has status OK.
AuthenticatedHostnameSucceeds ==
    HostnameAfterAuthentication => Replied /\ buffer.hdr.status = REMOTE_OK

\* C20 amended: that GET_HOSTNAME passes the auth gate and its handler is
\* called, but the session has opened no connection, so the reply is the
\* error "connection not open" (status ERROR, code RPC) and the library is not
\* called.
AuthenticatedHostnameNeedsOpen ==
    HostnameAfterAuthentication =>
        /\ last.called
        /\ last.before.auth = REMOTE_AUTH_NONE
        /\ last.before.conn = NULL
        /\ ErrorReply("connection not open")
        /\ buffer.body.error.code = VIR_ERR_RPC
        /\ last.libcalls = <<>>

\* The GET_HOSTNAME of the scenario was answered "connection not open".
AuthenticatedHostnameNeedsOpenWitness ==
    /\ HostnameAfterAuthentication
    /\ last.called
    /\ ErrorReply("connection not open")

(* ---------------------------- order of replies ------------------------- *)

\* The reply in the buffer answers request q: it is complete, and carries the
\* procedure and the serial of q (of the synthesised header when the header
\* of q could not be decoded).
Answers(q) ==
    /\ buffer.body.kind # "partial"
    /\ buffer.hdr.direction = REMOTE_REPLY
    /\ buffer.hdr.proc = (IF q.decoded THEN q.hdr.proc ELSE REMOTE_PROC_OPEN)
    /\ buffer.hdr.serial = (IF q.decoded THEN q.hdr.serial ELSE BlindSerial)

\* C21: with the transport calling the dispatcher in RX mode only and draining
\* in TX mode only, at most one request is in flight; while the session
\* receives none is, and while it sends exactly one is and the reply in the
\* buffer answers it: no request is dispatched before the reply of the
\* previous one is drained, and the replies leave in the order of the requests.
RepliesInArrivalOrder ==
    /\ Len(pending) <= 1
    /\ mode = QEMUD_MODE_RX => pending = <<>>
    /\ mode = QEMUD_MODE_TX_PACKET => Len(pending) = 1 /\ Answers(pending[1])

\* A second request has been answered after the reply of a first one was drained.
RepliesInArrivalOrderWitness ==
    /\ mode = QEMUD_MODE_TX_PACKET
    /\ opened
    /\ last.valid
    /\ last.hdr.proc = REMOTE_PROC_GET_HOSTNAME
    /\ pending = <<[decoded |-> TRUE, hdr |-> last.hdr]>>
    /\ Answers(pending[1])

(* --------------------------- replies that overflow --------------------- *)

\* The last handler returned 0 with a return structure whose encoding does not
\* fit the buffer after the length word and the header.
ResultOverflows ==
    /\ last.valid
    /\ last.called
    /\ last.rv = 0
    /\ XdrIntLen + XdrHeaderLen + XdrRetLen(last.ret) > BUFMAX

\* C22: when the encoding of a successful result overflows the buffer, the
\* reply of that request is a complete error reply (status ERROR, code RPC,
\* "serialise return struct") with the serial of the request, never a reply
\* with status OK or a truncated one; and the framed length never exceeds the
\* size of the buffer.
OverflowGivesErrorReply ==
    /\ ResultOverflows =>
          /\ ErrorReply("serialise return struct")
          /\ buffer.body.error.code = VIR_ERR_RPC
          /\ buffer.hdr.proc = last.hdr.proc
          /\ buffer.hdr.serial = last.hdr.serial
          /\ last.dispatcherWrote
    /\ bufferLength <= BUFMAX
    /\ mode = QEMUD_MODE_TX_PACKET => buffer.len = bufferLength

\* GET_CAPABILITIES returned a document as long as the buffer.
OverflowGivesErrorReplyWitness ==
    /\ ResultOverflows
    /\ last.hdr.proc = REMOTE_PROC_GET_CAPABILITIES
    /\ last.ret.capabilities_len >= BUFMAX
    /\ mode = QEMUD_MODE_TX_PACKET
    /\ buffer.hdr.status = REMOTE_ERROR
    /\ bufferLength < BUFMAX

(* ------------------------- requests without a handle ------------------- *)

\* The procedures whose handlers begin with CHECK_CONN: all but OPEN and the
\* four of the authentication.
ConnProcs == SwitchProcs \ ({REMOTE_PROC_OPEN} \cup AuthProcs)

\* The last request named one of these procedures and arrived while the
\* session held no hypervisor handle.
ArrivedWithoutHandle ==
    /\ last.valid
    /\ last.decoded
    /\ last.hdr.proc \in ConnProcs
    /\ last.before.conn = NULL

\* The reply "connection not open".
ConnectionNotOpenReply ==
    /\ ErrorReply("connection not open")
    /\ buffer.body.error.code = VIR_ERR_RPC
    /\ buffer.hdr.serial = last.hdr.serial

\* The messages of the stages that refuse a request with a decoded header
\* and a known procedure before its handler is called.
RefusalMessages ==
    {"program mismatch (actual %x, expected %x)",
     "version mismatch (actual %x, expected %x)",
     "direction (%d) != REMOTE_CALL", "status (%d) != REMOTE_OK",
     "authentication required", "parse args failed"}

\* C23 as stated: every request for such a procedure that arrives while the
\* session holds no handle is answered "connection not open" and makes no
\* call of the library.
NoHandleNoCall ==
    ArrivedWithoutHandle => (ConnectionNotOpenReply /\ last.libcalls = <<>>)

\* C23 amended: such a request makes no call of the library; it is answered
\* "connection not open" when it reaches its handler, and with the error of
\* the stage that refused it (envelope, auth gate, arguments) when it does not.
NoHandleNoCallOnceDispatched ==
    ArrivedWithoutHandle =>
        /\ last.libcalls = <<>>
        /\ conn = NULL
        /\ last.called => (ConnectionNotOpenReply /\ last.rv = -2)
        /\ ~last.called =>
              /\ Replied
              /\ buffer.hdr.status = REMOTE_ERROR
              /\ buffer.body.error.message \in RefusalMessages

\* A domain procedure reached its handler on a session without a handle.
NoHandleNoCallOnceDispatchedWitness ==
    /\ ArrivedWithoutHandle
    /\ last.called
    /\ last.hdr.proc = "DOMAIN_CREATE"
    /\ ConnectionNotOpenReply
    /\ last.libcalls = <<>>

(* ------------------------------ order of stages ------------------------ *)

\* The last request was refused with message msg after the first n stages,
\* the handler not called.
RefusedAt(n, msg) ==
    /\ ~last.called
    /\ last.stages = SubSeq(StageOrder, 1, n)
    /\ last.libcalls = <<>>
    /\ ErrorReply(msg)
    /\ buffer.body.error.code = VIR_ERR_RPC

\* The session required auth when the last request arrived and the procedure
\* of the request is not one of the authentication.
GateClosed ==
    /\ last.before.auth # REMOTE_AUTH_NONE
    /\ last.hdr.proc \notin {REMOTE_PROC_AUTH_LIST, REMOTE_PROC_AUTH_SASL_INIT,
                              REMOTE_PROC_AUTH_SASL_START, REMOTE_PROC_AUTH_SASL_STEP}

\* C24: the stages run in the order decode envelope, check envelope, auth
\* gate, resolve procedure, decode arguments, handler, and the first one that
\* fails gives the reply: a wrong envelope is answered with the envelope error
\* whatever the auth state, an unknown procedure on a session that requires
\* auth is answered "authentication required", and the handler is called only
\* when all five stages before it pass.
FirstFailingStageReplies ==
    last.valid =>
        IF ~last.decoded THEN RefusedAt(1, "xdr_remote_message_header")
        ELSE IF ~EnvelopeAccepted
        THEN RefusedAt(2, FirstEnvelopeMismatch(last.hdr))
        ELSE IF GateClosed THEN RefusedAt(3, "authentication required")
        ELSE IF last.hdr.proc = UnknownProc THEN RefusedAt(4, "unknown procedure: %d")
        ELSE IF ~XdrDecodeArgs(ArgsFilter(last.hdr.proc), last.args)
        THEN RefusedAt(5, "parse args failed")
        ELSE last.called /\ last.stages = StageOrder

\* An unknown procedure on a session that requires auth: "authentication
\* required".
FirstFailingStageRepliesWitness ==
    /\ last.valid
    /\ EnvelopeAccepted
    /\ last.hdr.proc = UnknownProc
    /\ last.before.auth = REMOTE_AUTH_SASL
    /\ ErrorReply("authentication required")

(* ------------------------ after the dispatcher returns ----------------- *)

\* The session is closed: it neither receives nor sends.  (No statement of the
\* dispatcher closes a session or gives client->mode another value than
\* QEMUD_MODE_TX_PACKET.)
TornDown == mode \notin {QEMUD_MODE_RX, QEMUD_MODE_TX_PACKET}

\* C25 as stated: after a return of the dispatcher the session sends one
\* complete reply or is torn down, and when the reply of the handler could not
\* be serialised the reply is abandoned and the session torn down.
AbandonedReplyTearsDown ==
    /\ last.valid => (Replied \/ TornDown)
    /\ ResultOverflows => (~Replied /\ TornDown)

\* C25 amended: after every return of the dispatcher the session is in TX
\* mode with one complete reply, framed from offset 0, and is never torn down
\* or left receiving with no reply; when the reply of the handler could not be
\* serialised, the partly framed reply is replaced by a complete error reply
\* to the same request and the session keeps its handle and its auth state.
SerialiseFailureStillReplies ==
    /\ ~TornDown
    /\ last.valid =>
          /\ Replied
          /\ bufferOffset = 0
          /\ bufferLength = buffer.len
          /\ bufferLength > 0
    /\ mode = QEMUD_MODE_RX => ~last.valid
    /\ ResultOverflows =>
          /\ ErrorReply("serialise return struct")
          /\ buffer.hdr.serial = last.hdr.serial
          /\ conn = last.before.conn
          /\ auth = last.before.auth
          /\ saslconn = last.before.saslconn

\* On an open session a result did not fit: the error reply is in the buffer
\* and the handle is kept.
SerialiseFailureStillRepliesWitness ==
    /\ ResultOverflows
    /\ opened
    /\ conn # NULL
    /\ conn = last.before.conn
    /\ ErrorReply("serialise return struct")
    /\ bufferOffset = 0

(* ----------------------- handles of DOMAIN_DESTROY --------------------- *)

\* C26: DOMAIN_DESTROY releases the domain it resolved exactly once on both
\* outcomes: after a destroy that succeeded the handler has no release (the
\* library consumed the handle), after a destroy that failed the handler
\* calls virDomainFree once before it returns -1.
DestroyReleasesOnFailure ==
    (Handled("DOMAIN_DESTROY") /\ HandleAcquired) =>
        /\ last.rv \in {0, -1}
        /\ Cardinality(CallsOf({"virDomainDestroy"})) = 1
        /\ last.rv = 0 => CallsOf({"virDomainFree"}) = {}
        /\ last.rv = -1 =>
              /\ Cardinality(CallsOf({"virDomainFree"})) = 1
              /\ \A i \in CallsOf({"virDomainFree"}) :
                    /\ last.libcalls[i].obj = "virDomainPtr"
                    /\ \A j \in CallsOf({"virDomainDestroy"}) : j < i

(* -------------------- handles returned to the client ------------------- *)

\* The last request reached the handler of a procedure of LookupProcs on a
\* session with a connection.
LookedUp ==
    /\ last.valid
    /\ last.called
    /\ last.hdr.proc \in LookupProcs
    /\ last.before.conn # NULL

\* C27: a handler that receives a new domain or network from the library
\* packs it with make_nonnull_domain / make_nonnull_network and releases it
\* exactly once, after packing, before it returns 0; when the library fails
\* there is no handle and nothing is packed or released.
NewHandleReleasedOnce ==
    LookedUp =>
        LET made == CallsOf({"make_nonnull_domain", "make_nonnull_network"})
            freed == CallsOf({"virDomainFree", "virNetworkFree"})
        IN  /\ last.rv \in {0, -1}
            /\ last.rv = -1 => (made = {} /\ freed = {})
            /\ last.rv = 0 =>
                  /\ Cardinality(made) = 1
                  /\ Cardinality(freed) = 1
                  /\ \A i \in made, j \in freed :
                        /\ i < j
                        /\ last.libcalls[i].obj = last.libcalls[j].obj
                        /\ last.libcalls[j].obj # NULL

(* --------------------------- objects not found ------------------------- *)

\* The place in the calls of the last handler where get_nonnull_domain or
\* get_nonnull_network did not resolve the object of the client.
NotResolved ==
    {i \in CallsOf({"virGetDomain", "virGetNetwork"}) : last.libcalls[i].result = NULL}

\* C28: when get_nonnull_domain / get_nonnull_network does not resolve the
\* object, the handler returns -2 after it wrote a complete error reply
\* ("domain not found" / "network not found", status ERROR, code RPC, the
\* serial of the request); every buffer it allocated before is freed exactly
\* once, and it makes no call but these frees after the lookup.
NotFoundReleasesBuffers ==
    (last.valid /\ last.called /\ NotResolved # {}) =>
        /\ last.rv = -2
        /\ last.handlerWrote
        /\ ~last.dispatcherWrote
        /\ \A i \in NotResolved :
              /\ ErrorReply(IF last.libcalls[i].fn = "virGetNetwork"
                            THEN "network not found" ELSE "domain not found")
              /\ \A k \in (i + 1)..Len(last.libcalls) : last.libcalls[k].fn = "free"
              /\ \A j \in 1..(i - 1) :
                    (last.libcalls[j].fn = "malloc" /\ last.libcalls[j].result # NULL) =>
                        Cardinality({k \in (i + 1)..Len(last.libcalls) :
                                        /\ last.libcalls[k].fn = "free"
                                        /\ last.libcalls[k].ptr = last.libcalls[j].result}) = 1
        /\ buffer.body.error.code = VIR_ERR_RPC
        /\ buffer.hdr.status = REMOTE_ERROR
        /\ buffer.hdr.serial = last.hdr.serial
        /\ buffer.hdr.proc = last.hdr.proc
        /\ conn = last.before.conn

\* DOMAIN_SET_SCHEDULER_PARAMETERS allocated its array, did not find the
\* domain, freed the array and answered "domain not found".
NotFoundReleasesBuffersWitness ==
    /\ Handled("DOMAIN_SET_SCHEDULER_PARAMETERS")
    /\ NotResolved # {}
    /\ \E j \in CallsOf({"malloc"}), k \in CallsOf({"free"}) :
          /\ j < k
          /\ last.libcalls[j].result = last.libcalls[k].ptr
    /\ last.rv = -2
    /\ ErrorReply("domain not found")

(* ------------------- START and STEP outside a negotiation -------------- *)

\* The last request reached the handler of AUTH_SASL_START or AUTH_SASL_STEP
\* on a session that does not advertise SASL or has no SASL context.
NotNegotiating ==
    /\ last.valid
    /\ last.called
    /\ last.hdr.proc \in {REMOTE_PROC_AUTH_SASL_START, REMOTE_PROC_AUTH_SASL_STEP}
    /\ (last.before.auth # REMOTE_AUTH_SASL \/ last.before.saslconn = NULL)

\* C29: AUTH_SASL_START and AUTH_SASL_STEP on a session that does not
\* advertise SASL or has no SASL context are answered with the FailAuth
\* reply (code AUTH_FAILED, the serial of the request), the SASL library is
\* not called and the auth state and the context stay what they were.
StartStepOnlyWhileNegotiating ==
    NotNegotiating =>
        /\ ErrorReply("authentication failed")
        /\ buffer.body.error.code = VIR_ERR_AUTH_FAILED
        /\ buffer.hdr.serial = last.hdr.serial
        /\ last.saslcalls = <<>>
        /\ auth = last.before.auth
        /\ saslconn = last.before.saslconn

(* --------------------------- the switch to TX -------------------------- *)

\* A step of the dispatcher: the session receives before it.
DispatcherStep == mode = QEMUD_MODE_RX /\ last'.valid

\* What such a step does to the fields of the session besides the buffer: the
\* offset is 0, the direction is write on a session with TLS and untouched on
\* one without, and tls, readonly and fd are not assigned.
SwitchToSend ==
    /\ mode' = QEMUD_MODE_TX_PACKET
    /\ bufferOffset' = 0
    /\ bufferLength' = buffer'.len
    /\ direction' = (IF tls THEN QEMUD_TLS_DIRECTION_WRITE ELSE direction)
    /\ tls' = tls
    /\ readonly' = readonly
    /\ fd' = fd

\* C30: every step of the dispatcher that switches the session to TX, with
\* the reply of a handler or with an error reply, sets bufferOffset to 0 and
\* sets the direction to write if and only if TLS is active on the session;
\* without TLS the direction stays what it was, and no step of the dispatcher
\* changes the readonly flag, the TLS flag or the file descriptor.
SwitchToSendSetsDirection ==
    /\ [](mode = QEMUD_MODE_TX_PACKET =>
            /\ bufferOffset = 0
            /\ tls => direction = QEMUD_TLS_DIRECTION_WRITE)
    /\ [][DispatcherStep => SwitchToSend]_vars

\* A session with TLS sends the reply of a handler: the direction is write.
SwitchToSendSetsDirectionWitness ==
    /\ Replied
    /\ buffer.hdr.status = REMOTE_OK
    /\ tls
    /\ direction = QEMUD_TLS_DIRECTION_WRITE
    /\ bufferOffset = 0
    /\ fd = "socket"

(* ------------------------------ the length word ------------------------ *)

\* The encoded size of the body in the buffer: a remote_error or the return
\* structure of the handler.
EncodedBodyLen ==
    IF buffer.body.kind = "error" THEN XdrErrorLen(buffer.body.error)
    ELSE XdrRetLen(buffer.body)

\* C31: whenever the session is in TX mode after the dispatcher ran, the
\* length word at the start of the buffer equals bufferLength, is the 4 bytes
\* of the word itself plus the encoded envelope plus the encoded body, and is
\* at most BUFMAX.  (The word is written last: a frame that was not finished
\* holds the dummy length 0 and is never handed to the transport.)
LengthWordCoversMessage ==
    /\ mode = QEMUD_MODE_TX_PACKET =>
          /\ last.valid
          /\ buffer.body.kind # "partial"
          /\ buffer.len = bufferLength
          /\ buffer.len = XdrIntLen + XdrHeaderLen + EncodedBodyLen
          /\ buffer.len <= BUFMAX
          /\ buffer.len > XdrIntLen + XdrHeaderLen \/ buffer.body.kind = "void"
    /\ (mode = QEMUD_MODE_RX /\ buffer.len # 0) => buffer.body.kind = "partial"

\* A reply with status OK and a body is in the buffer, its length word set.
LengthWordCoversMessageWitness ==
    /\ Replied
    /\ buffer.hdr.status = REMOTE_OK
    /\ buffer.body.kind = "remote_get_hostname_ret"
    /\ bufferLength = XdrIntLen + XdrHeaderLen + XdrIntLen + RoundUp4(buffer.body.hostname_len)
    /\ buffer.len = bufferLength

(* ------------------- scheduler parameters of unknown type --------------- *)

\* The last request was a DOMAIN_GET_SCHEDULER_PARAMETERS whose handler came
\* to the switch on the type of a parameter, the library having filled in a
\* type the switch has no case for.
UnknownTypeReturned ==
    /\ Handled("DOMAIN_GET_SCHEDULER_PARAMETERS")
    /\ CallsOf({"strdup"}) # {}
    /\ \A i \in CallsOf({"strdup"}) : last.libcalls[i].result # NULL
    /\ \E i \in CallsOf({"virDomainGetSchedulerParameters"}) :
          /\ last.libcalls[i].result = 0
          /\ last.libcalls[i].type \notin SchedulerFieldTypes

\* C32: when the library returns a scheduler parameter whose type is none of
\* the six known ones, DOMAIN_GET_SCHEDULER_PARAMETERS is answered with the
\* DispatchError reply "unknown type" (status ERROR, code RPC), never with a
\* reply of status OK that carries the type, and the domain handle is
\* released exactly once.
UnknownTypeRejected ==
    /\ UnknownTypeReturned =>
          /\ ErrorReply("unknown type")
          /\ buffer.body.error.code = VIR_ERR_RPC
          /\ buffer.hdr.serial = last.hdr.serial
          /\ last.rv = -2
          /\ Cardinality(CallsOf({"virDomainFree"})) = 1
          /\ Cardinality(CallsOf({"free"})) = 1
    /\ (Replied /\ buffer.body.kind = "remote_domain_get_scheduler_parameters_ret") =>
          \A i \in 1..Len(buffer.body.params) :
              buffer.body.params[i].type \in SchedulerFieldTypes

\* The library returned a parameter of an unknown type and the reply is out.
UnknownTypeRejectedWitness ==
    /\ UnknownTypeReturned
    /\ Replied
    /\ buffer.hdr.status = REMOTE_ERROR

(* -------------- scheduler parameters of unknown type, setting ----------- *)

\* The last request was a DOMAIN_SET_SCHEDULER_PARAMETERS that came to the
\* decoding of its arguments.
SetSchedulerDecoded ==
    /\ last.valid
    /\ last.decoded
    /\ last.hdr.proc = "DOMAIN_SET_SCHEDULER_PARAMETERS"
    /\ \E i \in 1..Len(last.stages) : last.stages[i] = "parse_args"
    /\ last.args.kind = "remote_domain_set_scheduler_parameters_args"

\* C33: a DOMAIN_SET_SCHEDULER_PARAMETERS with a parameter whose discriminant
\* is none of the six known ones is answered with an error reply and its
\* handler is not called; virDomainSetSchedulerParameters is only ever called
\* with parameters of a known type whose field and value are those of the
\* request.
UnknownDiscriminantRejected ==
    /\ (SetSchedulerDecoded
           /\ \E i \in 1..Len(last.args.params) :
                 last.args.params[i].type \notin SchedulerFieldTypes) =>
          /\ ErrorReply("parse args failed")
          /\ buffer.hdr.serial = last.hdr.serial
          /\ ~last.called
          /\ last.libcalls = <<>>
    /\ (last.valid /\ last.called) =>
          \A c \in CallsOf({"virDomainSetSchedulerParameters"}) :
              /\ last.libcalls[c].nparams = Len(last.args.params)
              /\ \A i \in 1..last.libcalls[c].nparams :
                    /\ last.libcalls[c].params[i].type \in SchedulerFieldTypes
                    /\ last.libcalls[c].params[i].type = last.args.params[i].type
                    /\ last.libcalls[c].params[i].value = last.args.params[i].value
                    /\ last.libcalls[c].params[i].field = last.args.params[i].field

\* A parameter of an unknown type was refused.
UnknownDiscriminantRejectedWitness ==
    /\ SetSchedulerDecoded
    /\ last.args.params[1].type = "OTHER_TYPE"
    /\ Replied
    /\ buffer.hdr.status = REMOTE_ERROR

\* The library was called with the parameter of the request.
SchedulerParametersSet ==
    /\ Handled("DOMAIN_SET_SCHEDULER_PARAMETERS")
    /\ CallsOf({"virDomainSetSchedulerParameters"}) # {}

(* ------------------------- invalid return codes ------------------------- *)

\* The handler of the last request returned a code outside {0, -1, -2}.
InvalidCodeReturned ==
    /\ last.valid
    /\ last.called
    /\ last.rv \notin {0, -1, -2}

\* C34: a handler that returns a code outside {0, -1, -2} (CLOSE forwards the
\* value of the library) is answered with the internal-error reply: status
\* ERROR, code RPC, the serial of the request; never with a reply of status
\* OK nor with the error of the library as body.
InvalidCodeGivesInternalError ==
    InvalidCodeReturned =>
        /\ ErrorReply("internal error - dispatch function returned invalid code %d")
        /\ buffer.hdr.status = REMOTE_ERROR
        /\ buffer.body.error.code = VIR_ERR_RPC
        /\ buffer.body.error.domain = VIR_FROM_REMOTE
        /\ buffer.hdr.serial = last.hdr.serial
        /\ buffer.hdr.proc = last.hdr.proc
        /\ ~last.handlerWrote
        /\ last.dispatcherWrote

\* CLOSE whose library call returned a positive value, the reply out.
InvalidCodeGivesInternalErrorWitness ==
    /\ InvalidCodeReturned
    /\ last.hdr.proc = REMOTE_PROC_CLOSE
    /\ last.rv = 1
    /\ Replied
    /\ conn # NULL

(* --------------------- clearing the auth requirement -------------------- *)

\* The step is the handler of AUTH_SASL_START or AUTH_SASL_STEP, run on a
\* session that requires SASL and has a context, in which the SASL library
\* returned SASL_OK with an output of at most REMOTE_AUTH_SASL_DATA_MAX bytes.
NegotiationCompletes ==
    /\ last'.valid
    /\ last'.called
    /\ last'.hdr.proc \in {REMOTE_PROC_AUTH_SASL_START, REMOTE_PROC_AUTH_SASL_STEP}
    /\ last'.before.auth = REMOTE_AUTH_SASL
    /\ last'.before.saslconn # NULL
    /\ Len(last'.saslcalls) = 1
    /\ last'.saslcalls[1].fn \in {"sasl_server_start", "sasl_server_step"}
    /\ last'.saslcalls[1].err = SASL_OK
    /\ last'.saslcalls[1].serveroutlen <= REMOTE_AUTH_SASL_DATA_MAX
    /\ last'.rv = 0

\* C35: the auth requirement of a session changes only from SASL to NONE, and
\* only in a call of AUTH_SASL_START or AUTH_SASL_STEP in which the context
\* exists, the SASL library returned SASL_OK and its output is at most
\* REMOTE_AUTH_SASL_DATA_MAX bytes long; no other procedure, no error path
\* and no rejected request changes it.
AuthClearedOnlyOnSuccess ==
    /\ [](auth \in {REMOTE_AUTH_NONE, REMOTE_AUTH_SASL})
    /\ [](auth # authOffered => authOffered = REMOTE_AUTH_SASL /\ haveSasl)
    /\ [][auth' # auth =>
            /\ auth = REMOTE_AUTH_SASL
            /\ auth' = REMOTE_AUTH_NONE
            /\ NegotiationCompletes]_vars

\* The requirement was cleared by the request the dispatcher last ran on.
AuthClearedOnlyOnSuccessWitness ==
    /\ Handled(REMOTE_PROC_AUTH_SASL_STEP)
    /\ last.before.auth = REMOTE_AUTH_SASL
    /\ auth = REMOTE_AUTH_NONE
    /\ last.saslcalls[1].err = SASL_OK
    /\ SaslReply(1)

(* ----------------------------- once authorized -------------------------- *)

\* The auth requirement of the session was cleared.
Authorized == authOffered = REMOTE_AUTH_SASL /\ auth = REMOTE_AUTH_NONE

\* The last request reached the handler of one of the three SASL procedures
\* on a session whose auth requirement had been cleared.
SaslAfterAuthorized ==
    /\ last.valid
    /\ last.called
    /\ last.hdr.proc \in {REMOTE_PROC_AUTH_SASL_INIT, REMOTE_PROC_AUTH_SASL_START,
                          REMOTE_PROC_AUTH_SASL_STEP}
    /\ authOffered = REMOTE_AUTH_SASL
    /\ last.before.auth = REMOTE_AUTH_NONE

\* C36: once the auth requirement of a session is cleared it stays cleared
\* whatever requests follow, and every later AUTH_SASL_INIT, AUTH_SASL_START
\* and AUTH_SASL_STEP is answered with the FailAuth reply, without a call of
\* the SASL library and without a change of the auth state.
AuthorizedIsAbsorbing ==
    /\ [][Authorized => Authorized']_vars
    /\ [](SaslAfterAuthorized =>
            /\ ErrorReply("authentication failed")
            /\ buffer.body.error.code = VIR_ERR_AUTH_FAILED
            /\ buffer.hdr.serial = last.hdr.serial
            /\ last.rv = -2
            /\ last.saslcalls = <<>>
            /\ auth = REMOTE_AUTH_NONE
            /\ saslconn = last.before.saslconn)

\* An AUTH_SASL_START on a session whose requirement was cleared before.
AuthorizedIsAbsorbingWitness ==
    /\ SaslAfterAuthorized
    /\ last.hdr.proc = REMOTE_PROC_AUTH_SASL_START
    /\ last.before.saslconn # NULL
    /\ Replied

\* An AUTH_SASL_INIT on a session whose requirement was cleared before.
InitAfterAuthorized ==
    /\ SaslAfterAuthorized
    /\ last.hdr.proc = REMOTE_PROC_AUTH_SASL_INIT
    /\ Replied

(* ------------------------- order of START and STEP ---------------------- *)

\* The handler of the last request handed the payload of the client to this
\* function of the SASL library.
Forwarded(fn) ==
    /\ last.valid
    /\ last.called
    /\ \E i \in 1..Len(last.saslcalls) : last.saslcalls[i].fn = fn

\* C37: within one SASL context the payload of an AUTH_SASL_STEP is
\* handed to the SASL library only after that of an AUTH_SASL_START was, and
\* that of an AUTH_SASL_START at most once.
StepOnlyAfterStart ==
    /\ Forwarded("sasl_server_step") => last.started
    /\ Forwarded("sasl_server_start") => ~last.started

(* --------------------------- sizes of allocations ----------------------- *)

\* The counts these arguments ask for are all between 0 and the maximum of
\* their field, the product maxinfo * maplen taken as a number, not as an int.
CountsWithinBounds(args) ==
    CASE args.kind = "remote_list_domains_args" ->
            args.maxids \in 0..REMOTE_DOMAIN_ID_LIST_MAX
      [] args.kind = "remote_list_defined_domains_args" ->
            args.maxnames \in 0..REMOTE_DOMAIN_NAME_LIST_MAX
      [] args.kind = "remote_domain_get_vcpus_args" ->
            /\ args.maxinfo \in 0..REMOTE_VCPUINFO_MAX
            /\ args.maplen >= 0
            /\ args.maxinfo > 0 => args.maplen <= REMOTE_CPUMAPS_MAX \div args.maxinfo
      [] args.kind = "remote_domain_get_scheduler_parameters_args" ->
            args.nparams \in 0..REMOTE_DOMAIN_SCHEDULER_PARAMETERS_MAX
      [] OTHER -> TRUE

\* The procedures whose handler allocates as many elements as an int of the
\* request says.
CountedProcs == {"LIST_DOMAINS", "LIST_DEFINED_DOMAINS", "DOMAIN_GET_VCPUS",
                 "DOMAIN_GET_SCHEDULER_PARAMETERS"}

\* The most elements a handler of CountedProcs may allocate at once.
CountMax(proc) ==
    CASE proc = "LIST_DOMAINS" -> REMOTE_DOMAIN_ID_LIST_MAX
      [] proc = "LIST_DEFINED_DOMAINS" -> REMOTE_DOMAIN_NAME_LIST_MAX
      [] proc = "DOMAIN_GET_VCPUS" -> REMOTE_CPUMAPS_MAX
      [] proc = "DOMAIN_GET_SCHEDULER_PARAMETERS" -> REMOTE_DOMAIN_SCHEDULER_PARAMETERS_MAX

\* C38: whatever ints maxids, maxnames, nparams, maxinfo and maplen are,
\* negative ones and ones whose product wraps included, a handler allocates
\* only for counts between 0 and the maximum of the field, each allocation
\* of at most that maximum of elements; every other request is answered with
\* an error reply before anything is allocated.
AllocationWithinBounds ==
    (last.valid /\ last.called /\ last.hdr.proc \in CountedProcs
       /\ last.before.conn # NULL
       /\ \A i \in CallsOf({"virGetDomain"}) : last.libcalls[i].result # NULL) =>
        /\ CountsWithinBounds(last.args) =>
              \A i \in CallsOf({"calloc", "malloc"}) :
                  last.libcalls[i].n \in 0..CountMax(last.hdr.proc)
        /\ ~CountsWithinBounds(last.args) =>
              /\ CallsOf({"calloc", "malloc"}) = {}
              /\ last.rv = -2
              /\ Replied
              /\ buffer.hdr.status = REMOTE_ERROR

(* ------------------------- the meaning of -2 ---------------------------- *)

\* C39: a handler returns -2 if and only if it wrote an error reply into the
\* buffer of the session itself: none writes one and returns 0 or -1, none
\* returns -2 without having written one; the SASL handlers of the build with
\* SASL and of the build without it included.
MinusTwoIffHandlerWrote ==
    (last.valid /\ last.called) =>
        /\ last.rv = -2 <=> last.handlerWrote
        /\ last.handlerWrote =>
              /\ last.handlerBuffer.body.kind = "error"
              /\ last.handlerBuffer.hdr.status = REMOTE_ERROR

(* ----------------------- whose error the reply carries ------------------ *)

\* The handler of the last request returned -1 and the reply is out.
LibraryFailureReplied ==
    /\ last.valid
    /\ last.called
    /\ last.rv = -1
    /\ Replied
    /\ buffer.body.kind = "error"

\* C40: with other sessions recording errors in the process-wide slot and no
\* slot ever cleared by the dispatcher, the error of the reply to a handler
\* that returned -1 is the error the library recorded in that very call, never
\* one an earlier request of this session or another session left in a slot;
\* when the call recorded none, it is the generic error of code RPC.
ReplyCarriesErrorOfThisCall ==
    LibraryFailureReplied =>
        IF last.recorded.code # VIR_ERR_OK
        THEN buffer.body.error = last.recorded
        ELSE /\ buffer.body.error.code = VIR_ERR_RPC
             /\ buffer.body.error.domain = VIR_FROM_REMOTE
             /\ buffer.body.error = ErrorFromSlot(NoError)

====
